---- MODULE Spec2Model ----
(***************************************************************************)
(* Model of the "moji recepti" REST API (Express + MySQL).                 *)
(*                                                                         *)
(* The state is the content of the relational tables, the AUTO_INCREMENT   *)
(* counters, the process environment (JWT secrets, dev mode), the requests *)
(* that are suspended at an await between two SQL statements, and the last *)
(* response written.  Every pool.query is one atomic step; a handler whose *)
(* statements can be interleaved with another request's statements in a    *)
(* way that changes its outcome is split at its awaits (register, add      *)
(* recipe ingredient); the other handlers are one step each.               *)
(*                                                                         *)
(* Text values whose trimming, case or length the code looks at are        *)
(* sequences of one-character strings, so that trim(), toLowerCase() and   *)
(* the case-insensitive collation of the tables are computed, not assumed. *)
(* created_at / updated_at columns are not modelled.                       *)
(***************************************************************************)
EXTENDS Integers, Sequences, FiniteSets, TLC

VARIABLES
    env,                  \* process.env: JWT secrets, NODE_ENV/DEV_USER_ID
    autoinc,              \* AUTO_INCREMENT counter of every table
    users,                \* table users:               id -> row
    refresh_tokens,       \* table refresh_tokens:      id -> row
    ingredients,          \* table ingredients:         id -> row
    recipes,              \* table recipes:             id -> row
    recipe_ingredients,   \* table recipe_ingredients:  id -> row
    inventory_items,      \* table inventory_items:     id -> row
    shopping_lists,       \* table shopping_lists:      id -> row
    shopping_list_items,  \* table shopping_list_items: id -> row
    reg,                  \* POST /auth/register requests suspended before the INSERT
    pending,              \* requests of the resource handlers suspended at an await
    resp                  \* the response written by the last step that answered a request

vars == <<env, autoinc, users, refresh_tokens, ingredients, recipes, recipe_ingredients,
          inventory_items, shopping_lists, shopping_list_items, reg, pending,
          resp>>

tables == <<users, refresh_tokens, ingredients, recipes, recipe_ingredients,
            inventory_items, shopping_lists, shopping_list_items>>

resourceTables == <<ingredients, recipes, recipe_ingredients, inventory_items,
                    shopping_lists, shopping_list_items>>

-----------------------------------------------------------------------------
(* Bounds of the model *)

\* AUTO_INCREMENT of users never exceeds this (caps the number of sign-ups)
MaxUsers == 2

\* rows ever inserted into the tables other than users and the catalog (the
\* catalog is bounded by the names the requests use: names are unique)
MaxRows == 3

\* requests that can be in flight at the same time
Procs == {"p1", "p2"}

-----------------------------------------------------------------------------
(* Text helpers: JavaScript trim()/toLowerCase() and the MySQL collation *)

IsSpace(c) == c = " "

ToLowerChar(c) ==
    CASE c = "A" -> "a"
      [] c = "B" -> "b"
      [] c = "M" -> "m"
      [] c = "O" -> "o"
      [] OTHER -> c

ToLowerCase(s) == [i \in 1..Len(s) |-> ToLowerChar(s[i])]

RECURSIVE TrimStart(_)
TrimStart(s) ==
    IF s # <<>> /\ IsSpace(Head(s)) THEN TrimStart(Tail(s)) ELSE s

RECURSIVE TrimEnd(_)
TrimEnd(s) ==
    IF s # <<>> /\ IsSpace(s[Len(s)]) THEN TrimEnd(SubSeq(s, 1, Len(s) - 1)) ELSE s

Trim(s) == TrimEnd(TrimStart(s))

Includes(s, c) == \E i \in 1..Len(s) : s[i] = c

\* equality of two varchar values under utf8mb4_unicode_ci: case-insensitive,
\* trailing spaces ignored (PAD SPACE)
CollEq(a, b) == ToLowerCase(TrimEnd(a)) = ToLowerCase(TrimEnd(b))

-----------------------------------------------------------------------------
(* Responses *)

NoData == [none |-> TRUE]

\* op names the handler; sub is req.user.sub and id the :id of the path (0 when
\* the handler has none); status, code, message and data are what the client gets
NoResp ==
    [op |-> "none", sub |-> 0, id |-> 0,
     status |-> 0, code |-> "", message |-> "", data |-> NoData]

\* res.status(status).json({ data })
Ok(op, status, data) ==
    [op |-> op, sub |-> 0, id |-> 0,
     status |-> status, code |-> "", message |-> "", data |-> data]

\* res.status(status).json({ error: { code, message } })
Err(op, status, code, message) ==
    [op |-> op, sub |-> 0, id |-> 0,
     status |-> status, code |-> code, message |-> message, data |-> NoData]

\* the response r, as the answer to a request of subject sub on path id
For(r, sub, id) == [r EXCEPT !.sub = sub, !.id = id]

\* the catch block of a handler: 500 with the raw exception message
InternalError(op, message) == Err(op, 500, "INTERNAL_ERROR", message)

-----------------------------------------------------------------------------
(* JSON Web Tokens *)

\* jwt.sign(payload, secret, {expiresIn}): typ is the payload shape
\* ("access": {sub, email}, "refresh": {sub}); expired says whether the clock
\* has passed the exp claim at the moment the token is presented.
SignToken(typ, sub, secret) ==
    [typ |-> typ, sub |-> sub, secret |-> secret, expired |-> FALSE]

signAccessToken(sub) == SignToken("access", sub, env.JWT_ACCESS_SECRET)

signRefreshToken(sub) == SignToken("refresh", sub, env.JWT_REFRESH_SECRET)

\* (mutant) the exp claim is not looked at
JwtVerifyIgnoresExpiry(t, secret) == t.secret = secret

\* jwt.verify(token, secret) returns the payload iff the signature was made
\* with that secret and the token has not expired; it throws otherwise.
JwtVerify(t, secret) == t.secret = secret /\ ~t.expired

\* no refreshToken in the body (or an empty string)
NoToken == [typ |-> "absent", sub |-> 0, secret |-> "", expired |-> FALSE]

\* a token the server never signed
ForgedTokens ==
    {[typ |-> ty, sub |-> s, secret |-> "forged", expired |-> FALSE] :
        ty \in {"access", "refresh"}, s \in 1..MaxUsers}

\* the tokens the server has handed out so far, presented now or after expiry:
\* a token is only ever signed for the id of an inserted users row
IssuedTokens ==
    {[typ |-> "access", sub |-> s, secret |-> env.JWT_ACCESS_SECRET, expired |-> x] :
        s \in 1..(autoinc.users - 1), x \in BOOLEAN}
    \cup
    {[typ |-> "refresh", sub |-> s, secret |-> env.JWT_REFRESH_SECRET, expired |-> x] :
        s \in 1..(autoinc.users - 1), x \in BOOLEAN}

\* tokens the server signed for a users row that is no longer in the table
\* (the row was removed from the database, or the database was re-created
\* from db/init while the tokens were still in the hands of clients)
StaleTokens ==
    {[typ |-> "access", sub |-> s, secret |-> env.JWT_ACCESS_SECRET, expired |-> x] :
        s \in 1..MaxUsers \ DOMAIN users, x \in BOOLEAN}
    \cup
    {[typ |-> "refresh", sub |-> s, secret |-> env.JWT_REFRESH_SECRET, expired |-> x] :
        s \in 1..MaxUsers \ DOMAIN users, x \in BOOLEAN}

Tokens == ForgedTokens \cup IssuedTokens \cup StaleTokens

\* values of the Authorization header
Headers ==
    {[scheme |-> "none", token |-> NoToken], [scheme |-> "Basic", token |-> NoToken]}
    \cup {[scheme |-> "Bearer", token |-> t] : t \in Tokens}

-----------------------------------------------------------------------------
(* Generic table operations *)

InsertRow(t, id, row) == (id :> row) @@ t

DeleteRows(t, ids) == [i \in DOMAIN t \ ids |-> t[i]]

EmptyTable == <<>>

-----------------------------------------------------------------------------
(* Inputs of the authentication endpoints *)

\* email values of a request body; <<>> is a missing or empty email
Emails ==
    { <<"a", "@">>, <<"A", "@">>, <<" ", "a", "@", " ">>, <<"b", "@">>, <<"a">>, <<>> }

\* password values of a request body; "" is a missing or empty password
Passwords == {"", "short", "password1", "password2"}

MinPasswordLength == 8

\* process environments the server can be started with.  DEV_USER_ID = 0
\* stands for an unset DEV_USER_ID.
Envs ==
    [NODE_ENV : {"production", "development"},
     DEV_USER_ID : {0, 1},
     JWT_ACCESS_SECRET : {"ka"},
     JWT_REFRESH_SECRET : {"ka", "kr"}]

ProductionEnv ==
    [NODE_ENV |-> "production", DEV_USER_ID |-> 0,
     JWT_ACCESS_SECRET |-> "ka", JWT_REFRESH_SECRET |-> "kr"]

-----------------------------------------------------------------------------
(* bcrypt *)

\* bcrypt.hash(password, 12); the salt is not modelled
BcryptHash(password) == <<"bcrypt", password>>

\* bcrypt.compare(password, hash)
BcryptCompare(password, hash) == hash = BcryptHash(password)

-----------------------------------------------------------------------------
(* POST /auth/register *)

Idle == [pc |-> "idle"]

\* email.trim().toLowerCase()
NormalizeEmail(email) == ToLowerCase(Trim(email))

\* (mutant) the lookup compares case-sensitively and never sees the stored row
UsersByEmailNoMatch(email) == {id \in DOMAIN users : FALSE}

\* SELECT id FROM users WHERE email = ? LIMIT 1
UsersByEmail(email) == {id \in DOMAIN users : CollEq(users[id].email, email)}

ValidRegisterEmail(email) == email # <<>> /\ Includes(email, "@")

ValidRegisterPassword(password) ==
    password # "" /\ Len(password) >= MinPasswordLength

\* sign-ups still allowed by the bound, counting those suspended before INSERT
SignupRoom ==
    autoinc.users + Cardinality({q \in Procs : reg[q].pc = "insert"}) <= MaxUsers

\* validation, then the existence check; the request is then suspended at
\* await bcrypt.hash / await INSERT
RegisterCheck(p, email, password) ==
    /\ reg[p].pc = "idle"
    /\ IF ~ValidRegisterEmail(email)
         THEN /\ resp' = Err("register", 400, "VALIDATION_ERROR", "Invalid email")
              /\ UNCHANGED reg
       ELSE IF ~ValidRegisterPassword(password)
         THEN /\ resp' = Err("register", 400, "VALIDATION_ERROR",
                             "Password must be at least 8 characters")
              /\ UNCHANGED reg
       ELSE IF UsersByEmail(NormalizeEmail(email)) # {}
         THEN /\ resp' = Err("register", 409, "CONFLICT", "Email already registered")
              /\ UNCHANGED reg
       ELSE /\ SignupRoom
            /\ reg' = [reg EXCEPT ![p] = [pc |-> "insert",
                                          email |-> NormalizeEmail(email),
                                          password |-> password]]
            /\ UNCHANGED resp
    /\ UNCHANGED <<env, autoinc, tables, pending>>

\* INSERT INTO users; uq_users_email makes the statement throw on a duplicate,
\* and the handler's catch block answers 500
RegisterInsert(p) ==
    /\ reg[p].pc = "insert"
    /\ IF UsersByEmail(reg[p].email) # {}
         THEN /\ resp' = InternalError("register", "ER_DUP_ENTRY")
              /\ UNCHANGED <<users, autoinc>>
         ELSE LET userId == autoinc.users IN
              /\ users' = InsertRow(users, userId,
                                    [email |-> reg[p].email,
                                     password_hash |-> BcryptHash(reg[p].password)])
              /\ autoinc' = [autoinc EXCEPT !.users = userId + 1]
              /\ resp' = Ok("register", 201,
                            [user |-> userId,
                             accessToken |-> signAccessToken(userId),
                             refreshToken |-> signRefreshToken(userId)])
    /\ reg' = [reg EXCEPT ![p] = Idle]
    /\ UNCHANGED <<env, refresh_tokens, resourceTables, pending>>

-----------------------------------------------------------------------------
(* POST /auth/login *)

\* (mutant) an unknown email is answered with its own message
LoginResponseLeaky(email, password) ==
    IF email = <<>> \/ password = ""
      THEN Err("login", 400, "VALIDATION_ERROR", "email and password are required")
    ELSE LET rows == UsersByEmail(NormalizeEmail(email)) IN
      IF rows = {}
        THEN Err("login", 401, "UNAUTHORIZED", "User not found")
      ELSE LET id == CHOOSE i \in rows : TRUE IN
        IF ~BcryptCompare(password, users[id].password_hash)
          THEN Err("login", 401, "UNAUTHORIZED", "Invalid credentials")
          ELSE Ok("login", 200,
                  [user |-> id,
                   accessToken |-> signAccessToken(id),
                   refreshToken |-> signRefreshToken(id)])

LoginResponse(email, password) ==
    IF email = <<>> \/ password = ""
      THEN Err("login", 400, "VALIDATION_ERROR", "email and password are required")
    ELSE LET rows == UsersByEmail(NormalizeEmail(email)) IN
      IF rows = {}
        THEN Err("login", 401, "UNAUTHORIZED", "Invalid credentials")
      ELSE LET id == CHOOSE i \in rows : TRUE IN
        IF ~BcryptCompare(password, users[id].password_hash)
          THEN Err("login", 401, "UNAUTHORIZED", "Invalid credentials")
          ELSE Ok("login", 200,
                  [user |-> id,
                   accessToken |-> signAccessToken(id),
                   refreshToken |-> signRefreshToken(id)])

Login(email, password) ==
    /\ resp' = LoginResponse(email, password)
    /\ UNCHANGED <<env, autoinc, tables, reg, pending>>

-----------------------------------------------------------------------------
(* POST /auth/refresh *)

RefreshResponse(refreshToken) ==
    IF refreshToken = NoToken
      THEN Err("refresh", 400, "VALIDATION_ERROR", "refreshToken is required")
    ELSE IF ~JwtVerify(refreshToken, env.JWT_REFRESH_SECRET)
      THEN Err("refresh", 401, "UNAUTHORIZED", "Invalid refresh token")
    ELSE IF refreshToken.sub \notin DOMAIN users
      THEN Err("refresh", 401, "UNAUTHORIZED", "User not found")
    ELSE Ok("refresh", 200,
            [user |-> refreshToken.sub,
             accessToken |-> signAccessToken(refreshToken.sub),
             refreshToken |-> signRefreshToken(refreshToken.sub)])

\* (mutant) a rotating refresh: the presented token is recorded in the
\* refresh_tokens table once it has been exchanged
RefreshRotating(refreshToken) ==
    /\ resp' = RefreshResponse(refreshToken)
    /\ refresh_tokens' =
          IF RefreshResponse(refreshToken).status = 200
               /\ \A i \in DOMAIN refresh_tokens : refresh_tokens[i].token # refreshToken
            THEN refresh_tokens @@
                 ((Cardinality(DOMAIN refresh_tokens) + 1) :>
                     [user_id |-> refreshToken.sub, token |-> refreshToken])
            ELSE refresh_tokens
    /\ UNCHANGED <<env, autoinc, users, resourceTables, reg, pending>>

\* the handler runs one SELECT on users and signs two tokens; no statement of
\* the program names the refresh_tokens table
Refresh(refreshToken) ==
    /\ resp' = RefreshResponse(refreshToken)
    /\ UNCHANGED <<env, autoinc, tables, reg, pending>>

-----------------------------------------------------------------------------
(* authRequired and the route table *)

DevMode == env.NODE_ENV = "development" /\ env.DEV_USER_ID # 0

\* (mutant) a request without a bearer token is let through
authRequiredOpen(h) ==
    IF DevMode
      THEN [next |-> TRUE, sub |-> env.DEV_USER_ID, message |-> ""]
    ELSE IF h.scheme # "Bearer"
      THEN [next |-> TRUE, sub |-> 0, message |-> ""]
    ELSE IF JwtVerify(h.token, env.JWT_ACCESS_SECRET)
      THEN [next |-> TRUE, sub |-> h.token.sub, message |-> ""]
      ELSE [next |-> FALSE, sub |-> 0, message |-> "Invalid token"]

\* the middleware: either it calls next() with req.user set, or it answers 401
authRequired(h) ==
    IF DevMode
      THEN [next |-> TRUE, sub |-> env.DEV_USER_ID, message |-> ""]
    ELSE IF h.scheme # "Bearer"
      THEN [next |-> FALSE, sub |-> 0, message |-> "Missing token"]
    ELSE IF JwtVerify(h.token, env.JWT_ACCESS_SECRET)
      THEN [next |-> TRUE, sub |-> h.token.sub, message |-> ""]
      ELSE [next |-> FALSE, sub |-> 0, message |-> "Invalid token"]

\* the routes registered on the app, with whether authRequired guards them
\* (register, login and refresh are the three actions above)
Routes ==
    {[method |-> "USE", path |-> "/docs", auth |-> FALSE],
     [method |-> "GET", path |-> "/openapi.json", auth |-> FALSE],
     [method |-> "GET", path |-> "/health", auth |-> FALSE]}
    \cup
    {[method |-> r[1], path |-> r[2], auth |-> TRUE] : r \in
       {<<"GET", "/auth/me">>,
        <<"GET", "/recipes">>, <<"POST", "/recipes">>,
        <<"GET", "/recipes/:id">>, <<"PATCH", "/recipes/:id">>,
        <<"DELETE", "/recipes/:id">>,
        <<"GET", "/recipes/:id/ingredients">>, <<"POST", "/recipes/:id/ingredients">>,
        <<"PATCH", "/recipes/:id/ingredients/:riId">>,
        <<"DELETE", "/recipes/:id/ingredients/:riId">>,
        <<"GET", "/ingredients">>, <<"POST", "/ingredients">>,
        <<"GET", "/inventory/items">>, <<"GET", "/inventory/items/:id">>,
        <<"POST", "/inventory/items">>, <<"PATCH", "/inventory/items/:id">>,
        <<"DELETE", "/inventory/items/:id">>,
        <<"GET", "/inventory/low-stock">>, <<"GET", "/inventory/expiring">>,
        <<"GET", "/shopping-lists">>, <<"POST", "/shopping-lists">>,
        <<"GET", "/shopping-lists/:id">>, <<"PATCH", "/shopping-lists/:id">>,
        <<"DELETE", "/shopping-lists/:id">>,
        <<"GET", "/shopping-lists/:id/items">>, <<"POST", "/shopping-lists/:id/items">>,
        <<"PATCH", "/shopping-lists/:id/items/:itemId">>,
        <<"DELETE", "/shopping-lists/:id/items/:itemId">>,
        <<"PATCH", "/shopping-lists/:id/items:bulk">>,
        <<"POST", "/shopping-lists/:id/items:clearChecked">>}}

\* a request to a route: the middleware chain up to the entry of the handler.
\* data.handled says that the handler was entered, data.sub is req.user.sub.
\* (The handlers' bodies are the actions below, which take the subject.)
RouteResponse(route, h) ==
    IF ~route.auth
      THEN Ok("request", 200, [handled |-> TRUE, sub |-> 0])
    ELSE LET a == authRequired(h) IN
      IF a.next
        THEN Ok("request", 200, [handled |-> TRUE, sub |-> a.sub])
        ELSE [Err("request", 401, "UNAUTHORIZED", a.message)
                 EXCEPT !.data = [handled |-> FALSE, sub |-> 0]]

Request(route, h) ==
    /\ resp' = RouteResponse(route, h)
    /\ UNCHANGED <<env, autoinc, tables, reg, pending>>

-----------------------------------------------------------------------------
(* The authentication service *)

InitTables ==
    /\ autoinc = [users |-> 1, ingredients |-> 1, recipes |-> 1,
                  recipe_ingredients |-> 1, inventory_items |-> 1,
                  shopping_lists |-> 1, shopping_list_items |-> 1]
    /\ users = EmptyTable
    /\ refresh_tokens = EmptyTable
    /\ ingredients = EmptyTable
    /\ recipes = EmptyTable
    /\ recipe_ingredients = EmptyTable
    /\ inventory_items = EmptyTable
    /\ shopping_lists = EmptyTable
    /\ shopping_list_items = EmptyTable

InitAuth ==
    /\ env \in Envs
    /\ InitTables
    /\ reg = [p \in Procs |-> Idle]
    /\ pending = [p \in Procs |-> Idle]
    /\ resp = NoResp

\* the routes that requests are sent to (every protected route has the same
\* middleware chain; the properties quantify over all of Routes)
ProbedRoutes ==
    {r \in Routes : r.path \in {"/health", "/docs", "/auth/me", "/recipes/:id"}}

NextAuth ==
    \/ \E p \in Procs, e \in Emails, pw \in Passwords : RegisterCheck(p, e, pw)
    \/ \E p \in Procs : RegisterInsert(p)
    \/ \E e \in Emails, pw \in Passwords : Login(e, pw)
    \/ \E t \in Tokens \cup {NoToken} : Refresh(t)
    \/ \E r \in ProbedRoutes, h \in Headers : Request(r, h)

SpecAuth == InitAuth /\ [][NextAuth]_vars

-----------------------------------------------------------------------------
(* Properties of the authentication service *)

\* the presented header carries a token that jwt.verify accepts under the
\* access secret (stated on the token's fields, not through JwtVerify)
VerifiesAsAccess(h) ==
    /\ h.scheme = "Bearer"
    /\ h.token.secret = env.JWT_ACCESS_SECRET
    /\ ~h.token.expired

\* the presented header carries an unexpired access token signed by the server
ValidAccessToken(h) == VerifiesAsAccess(h) /\ h.token.typ = "access"

\* C3 as stated: every route except register, login, refresh and /health
\* answers 401 UNAUTHORIZED, without entering its handler, when the request
\* has no valid access token - whatever the configuration of the server.
C3_EveryOtherRouteRejects ==
    \A r \in Routes, h \in Headers :
        (r.path # "/health" /\ ~ValidAccessToken(h))
           => LET a == RouteResponse(r, h)
              IN a.status = 401 /\ a.code = "UNAUTHORIZED" /\ ~a.data.handled

\* C3 amended: unless the server runs in dev mode, every route registered with
\* authRequired answers 401 UNAUTHORIZED, without entering its handler and
\* without changing any table, when the request has no bearer token or a token
\* that does not verify under JWT_ACCESS_SECRET (bad signature or expired).
C3_ProtectedRoutesReject ==
    /\ [](\A r \in Routes, h \in Headers :
            (r.auth /\ ~DevMode /\ ~VerifiesAsAccess(h))
               => LET a == RouteResponse(r, h)
                  IN a.status = 401 /\ a.code = "UNAUTHORIZED" /\ ~a.data.handled)
    /\ [][(resp'.op = "request" /\ resp'.status = 401) => tables' = tables]_vars

\* C3 witness: outside dev mode a request has been turned away by authRequired
C3_Witness ==
    /\ ~DevMode
    /\ resp.op = "request"
    /\ resp.status = 401
    /\ resp.message = "Invalid token"

\* no two rows of users have the same email up to case
UniqueEmails ==
    \A i, j \in DOMAIN users :
        ToLowerCase(users[i].email) = ToLowerCase(users[j].email) => i = j

\* some row of users holds the email that this request's email normalizes to
Registered(email) ==
    \E id \in DOMAIN users : users[id].email = ToLowerCase(Trim(email))

\* C4 as stated: once an email is registered, every later register call with
\* the same email (after trimming and lower-casing) is answered 409 CONFLICT
\* and leaves the users table unchanged.
C4_EveryLaterRegisterConflicts ==
    [][(reg' # reg \/ resp'.op = "register") =>
         \A p \in Procs, e \in Emails, pw \in Passwords :
            (RegisterCheck(p, e, pw) /\ Registered(e))
               => (resp'.status = 409 /\ resp'.code = "CONFLICT" /\ users' = users)]_vars

\* C4 amended: a registered row stays; a later register call with the same
\* email (after trimming and lower-casing) and a password of at least 8
\* characters is answered 409 CONFLICT, one with a shorter or missing password
\* 400 VALIDATION_ERROR; both leave the users table unchanged; and no two user
\* rows ever share a case-folded email.
C4_LaterRegisterConflicts ==
    /\ [][(reg' # reg \/ resp'.op = "register") =>
           \A p \in Procs, e \in Emails, pw \in Passwords :
            (RegisterCheck(p, e, pw) /\ Registered(e))
               => /\ users' = users
                  /\ reg' = reg
                  /\ IF pw # "" /\ Len(pw) >= 8
                       THEN resp'.status = 409 /\ resp'.code = "CONFLICT"
                       ELSE resp'.status = 400 /\ resp'.code = "VALIDATION_ERROR"]_vars
    /\ [][\A id \in DOMAIN users : id \in DOMAIN users' /\ users'[id] = users[id]]_vars
    /\ []UniqueEmails

\* C4 witness: a register call for an email that has a row was answered 409
C4_Witness ==
    /\ resp.op = "register"
    /\ resp.status = 409
    /\ users # EmptyTable

\* C5: of two concurrent register requests for the same email exactly one
\* creates a row, and the other is answered 409 CONFLICT: a register request
\* is never answered INTERNAL_ERROR because of the duplicate.
C5_ConcurrentRegisterConflicts ==
    /\ UniqueEmails
    /\ resp.op = "register" => resp.status \in {201, 400, 409}

\* C6: whatever the store holds, a login with a registered email and a wrong
\* password and a login with an unregistered email get the same status, code
\* and message, 401 UNAUTHORIZED.
C6_LoginDoesNotRevealEmail ==
    \A e1, e2 \in Emails \ {<<>>}, p1, p2 \in Passwords \ {""} :
        (/\ \E id \in DOMAIN users :
               /\ users[id].email = ToLowerCase(Trim(e1))
               /\ users[id].password_hash # BcryptHash(p1)
         /\ ~Registered(e2))
        => LET r1 == LoginResponse(e1, p1)
               r2 == LoginResponse(e2, p2)
           IN /\ r1.status = 401 /\ r1.code = "UNAUTHORIZED"
              /\ r2.status = r1.status
              /\ r2.code = r1.code
              /\ r2.message = r1.message
              /\ r2.data = r1.data

\* C6 witness: a login was refused while one email is registered and another is not
C6_Witness ==
    /\ resp.op = "login"
    /\ resp.status = 401
    /\ \E e1, e2 \in Emails \ {<<>>} : Registered(e1) /\ ~Registered(e2)

\* C5 witness of the race: two register requests hold the same email, both
\* past the existence check and before the INSERT
C5_BothPastCheck ==
    /\ reg["p1"].pc = "insert"
    /\ reg["p2"].pc = "insert"
    /\ reg["p1"].email = reg["p2"].email

\* the tokens of a 200 response of refresh are fresh tokens of subject sub
RenewedFor(r, sub) ==
    /\ r.status = 200
    /\ r.data.accessToken = [typ |-> "access", sub |-> sub,
                             secret |-> env.JWT_ACCESS_SECRET, expired |-> FALSE]
    /\ r.data.refreshToken = [typ |-> "refresh", sub |-> sub,
                              secret |-> env.JWT_REFRESH_SECRET, expired |-> FALSE]

\* C7 as stated: refresh answers 401 UNAUTHORIZED whenever the presented token
\* is not a refresh token signed with the refresh secret, is expired, or names
\* a subject without a users row; otherwise it returns a new access token and
\* a new refresh token of the same subject.
C7_RefreshRejectsOrRenews ==
    \A t \in Tokens \cup {NoToken} :
        LET r == RefreshResponse(t) IN
        IF \/ t.typ # "refresh"
           \/ t.secret # env.JWT_REFRESH_SECRET
           \/ t.expired
           \/ t.sub \notin DOMAIN users
          THEN r.status = 401 /\ r.code = "UNAUTHORIZED"
          ELSE RenewedFor(r, t.sub)

\* C7 amended: refresh answers 400 VALIDATION_ERROR when no token is presented;
\* 401 UNAUTHORIZED when the presented token does not verify under
\* JWT_REFRESH_SECRET (signed with another secret, or expired) or names a
\* subject without a users row; otherwise 200 with a new access token and a
\* new refresh token of the same subject.  The kind of the token is not looked
\* at: an access token is renewed too when both secrets are the same.
C7_RefreshVerifiesThenRenews ==
    \A t \in Tokens \cup {NoToken} :
        LET r == RefreshResponse(t) IN
        IF t = NoToken
          THEN r.status = 400 /\ r.code = "VALIDATION_ERROR"
        ELSE IF \/ t.secret # env.JWT_REFRESH_SECRET
                \/ t.expired
                \/ t.sub \notin DOMAIN users
          THEN r.status = 401 /\ r.code = "UNAUTHORIZED"
          ELSE RenewedFor(r, t.sub)

\* C7 witness: a refresh was answered with new tokens for a registered subject
C7_Witness ==
    /\ resp.op = "refresh"
    /\ resp.status = 200
    /\ resp.data.user \in DOMAIN users
    /\ resp.data.refreshToken.sub = resp.data.user

\* the refresh tokens that are exchanged for new tokens in the current state
Refreshable == {t \in Tokens : RefreshResponse(t).status = 200}

\* C26: refresh is stateless.  A successful refresh leaves every table as it
\* was, the refresh_tokens table included, and neither records nor invalidates
\* the presented token: no step ever writes refresh_tokens, and a token that
\* verifies under JWT_REFRESH_SECRET, has not expired and names a users row is
\* exchanged again after any number of refreshes and other requests.
C26_RefreshIsStateless ==
    /\ [](refresh_tokens = EmptyTable)
    /\ [][\A t \in Tokens :
            Refresh(t) /\ RefreshResponse(t).status = 200
                => /\ refresh_tokens' = refresh_tokens
                   /\ users' = users
                   /\ (RefreshResponse(t))' = RefreshResponse(t)]_vars
    /\ [][\A t \in Tokens :
            ~t.expired /\ t.secret = env.JWT_REFRESH_SECRET /\ t.sub \in DOMAIN users
                => /\ RefreshResponse(t).status = 200
                   /\ (RefreshResponse(t))'.status = 200]_vars

\* C26 witness: a refresh was answered with new tokens, and the refresh token
\* of that subject, the returned one too, is exchanged again in this state
C26_Witness ==
    /\ resp.op = "refresh"
    /\ resp.status = 200
    /\ signRefreshToken(resp.data.user) \in Refreshable
    /\ resp.data.refreshToken \in Refreshable
    /\ refresh_tokens = EmptyTable

-----------------------------------------------------------------------------
(* Values of request bodies and path parameters *)

\* Number(x) of a path segment or body value that is not a number
NaN == 0 - 9999

\* a text field that is absent from the body, and one that is null
UNDEFINED == <<"undefined">>

NULL == <<"null">>

\* a text field whose value is a JSON number (typeof is not "string")
NUMBER == <<"number">>

\* Number(quantity) of the body values of a quantity, given as JSON text;
\* "undefined" is an absent field
NumberOf(v) ==
    CASE v = "undefined" -> NaN
      [] v = "abc" -> NaN
      [] v = "null" -> 0
      [] v = "-1" -> 0 - 1
      [] v = "0" -> 0
      [] v = "1" -> 1
      [] v = "2" -> 2

\* Number.isFinite(q)
IsFinite(q) == q # NaN

\* JavaScript truthiness of a unit value ("undefined", "null", "" or a unit)
Truthy(unit) == unit \notin {"undefined", "null", ""}

\* a || b on unit values
OrElse(a, b) == IF Truthy(a) THEN a ELSE b

\* a destructuring default of null
DefaultNull(unit) == IF unit = "undefined" THEN "null" ELSE unit

\* !text || typeof text !== "string" || text.trim().length < 2
TooShort(text) ==
    text = UNDEFINED \/ text = NULL \/ text = NUMBER \/ text = <<>> \/ Len(Trim(text)) < 2

\* Number.isInteger(Number(req.params.id))
IsIntegerId(id) == id # NaN

\* rows inserted so far into the tables other than users and ingredients
RowsInserted ==
    (autoinc.recipes - 1) + (autoinc.recipe_ingredients - 1)
    + (autoinc.inventory_items - 1) + (autoinc.shopping_lists - 1)
    + (autoinc.shopping_list_items - 1)

\* the bound of the model leaves room for one more INSERT
Room == RowsInserted < MaxRows

-----------------------------------------------------------------------------
(* Recipes *)

\* SELECT id FROM recipes WHERE id = ? AND user_id = ? LIMIT 1
assertRecipeOwnership(recipeId, userId) ==
    recipeId \in DOMAIN recipes /\ recipes[recipeId].user_id = userId

\* rows of recipe_ingredients of a recipe
IngredientsOf(recipeId) ==
    {ri \in DOMAIN recipe_ingredients : recipe_ingredients[ri].recipe_id = recipeId}

NotFound(op, message) == Err(op, 404, "NOT_FOUND", message)

Invalid(op, message) == Err(op, 400, "VALIDATION_ERROR", message)

\* (mutant) the title is stored as it came, without trim()
RecipeCreateUntrimmed(u, title, isPublic) ==
    IF TooShort(title)
      THEN [resp |-> Invalid("POST /recipes", "title is required (min 2 chars)"),
            recipes |-> recipes]
      ELSE [resp |-> Ok("POST /recipes", 201, [id |-> autoinc.recipes]),
            recipes |-> InsertRow(recipes, autoinc.recipes,
                                  [user_id |-> u, title |-> title,
                                   is_public |-> isPublic])]

\* POST /recipes (of the body's fields title and isPublic are modelled;
\* isPublic is the truthiness of the body's value, FALSE when it is absent)
RecipeCreateOutcome(u, title, isPublic) ==
    IF TooShort(title)
      THEN [resp |-> Invalid("POST /recipes", "title is required (min 2 chars)"),
            recipes |-> recipes]
      ELSE [resp |-> Ok("POST /recipes", 201, [id |-> autoinc.recipes]),
            recipes |-> InsertRow(recipes, autoinc.recipes,
                                  [user_id |-> u, title |-> Trim(title),
                                   is_public |-> isPublic])]

RecipeCreate(u, title, isPublic) ==
    LET o == RecipeCreateOutcome(u, title, isPublic) IN
    /\ o.resp.status = 201 => Room
    /\ resp' = For(o.resp, u, 0)
    /\ recipes' = o.recipes
    /\ autoinc' = IF o.resp.status = 201
                    THEN [autoinc EXCEPT !.recipes = @ + 1] ELSE autoinc
    /\ UNCHANGED <<env, users, refresh_tokens, ingredients, recipe_ingredients, inventory_items,
                   shopping_lists, shopping_list_items, reg, pending>>

\* GET /recipes/:id
RecipeGetResponse(u, id) ==
    IF ~IsIntegerId(id)
      THEN Invalid("GET /recipes/:id", "Invalid recipe id")
    ELSE IF ~(id \in DOMAIN recipes /\ recipes[id].user_id = u)
      THEN NotFound("GET /recipes/:id", "Recipe not found")
    ELSE Ok("GET /recipes/:id", 200,
            [recipe |-> recipes[id],
             ingredients |-> {<<ri, recipe_ingredients[ri]>> : ri \in
                                {r \in IngredientsOf(id) :
                                   recipe_ingredients[r].ingredient_id \in DOMAIN ingredients}}])

RecipeGet(u, id) ==
    /\ resp' = For(RecipeGetResponse(u, id), u, id)
    /\ UNCHANGED <<env, autoinc, tables, reg, pending>>

\* (mutant) the UPDATE and the ownership check leave out user_id
RecipePatchAnyOwner(u, id, title, isPublic) ==
    IF ~IsIntegerId(id)
      THEN [resp |-> Invalid("PATCH /recipes/:id", "Invalid recipe id"), recipes |-> recipes]
    ELSE IF id \notin DOMAIN recipes
      THEN [resp |-> NotFound("PATCH /recipes/:id", "Recipe not found"), recipes |-> recipes]
    ELSE IF title # UNDEFINED /\ (title \in {NULL, NUMBER} \/ Len(Trim(title)) < 2)
      THEN [resp |-> Invalid("PATCH /recipes/:id", "title must be at least 2 chars"),
            recipes |-> recipes]
    ELSE IF title = UNDEFINED /\ isPublic = "undefined"
      THEN [resp |-> Invalid("PATCH /recipes/:id", "No fields to update"),
            recipes |-> recipes]
    ELSE [resp |-> Ok("PATCH /recipes/:id", 200, [updated |-> TRUE]),
          recipes |-> [recipes EXCEPT
                         ![id].title = IF title # UNDEFINED THEN Trim(title) ELSE @,
                         ![id].is_public = IF isPublic # "undefined"
                                             THEN isPublic = "true" ELSE @]]

\* PATCH /recipes/:id (of the body's fields title and isPublic are modelled;
\* isPublic is "undefined" when absent, else "true" or "false"); a field that
\* is absent is left as it is
RecipePatchOutcome(u, id, title, isPublic) ==
    IF ~IsIntegerId(id)
      THEN [resp |-> Invalid("PATCH /recipes/:id", "Invalid recipe id"), recipes |-> recipes]
    ELSE IF ~assertRecipeOwnership(id, u)
      THEN [resp |-> NotFound("PATCH /recipes/:id", "Recipe not found"), recipes |-> recipes]
    ELSE IF title # UNDEFINED /\ (title \in {NULL, NUMBER} \/ Len(Trim(title)) < 2)
      THEN [resp |-> Invalid("PATCH /recipes/:id", "title must be at least 2 chars"),
            recipes |-> recipes]
    ELSE IF title = UNDEFINED /\ isPublic = "undefined"
      THEN [resp |-> Invalid("PATCH /recipes/:id", "No fields to update"),
            recipes |-> recipes]
    ELSE [resp |-> Ok("PATCH /recipes/:id", 200, [updated |-> TRUE]),
          recipes |-> [recipes EXCEPT
                         ![id].title = IF title # UNDEFINED THEN Trim(title) ELSE @,
                         ![id].is_public = IF isPublic # "undefined"
                                             THEN isPublic = "true" ELSE @]]

RecipePatch(u, id, title, isPublic) ==
    LET o == RecipePatchOutcome(u, id, title, isPublic) IN
    /\ resp' = For(o.resp, u, id)
    /\ recipes' = o.recipes
    /\ UNCHANGED <<env, autoinc, users, refresh_tokens, ingredients, recipe_ingredients, inventory_items,
                   shopping_lists, shopping_list_items, reg, pending>>

\* the rows left in recipe_ingredients after recipes `gone` are deleted
\* (fk_recipe_ingredients_recipe ON DELETE CASCADE)
CascadeRecipeIngredients(gone) ==
    DeleteRows(recipe_ingredients,
               {ri \in DOMAIN recipe_ingredients : recipe_ingredients[ri].recipe_id \in gone})

\* shopping_list_items after recipes `gone` are deleted
\* (fk_shopping_items_recipe ON DELETE SET NULL)
NullifyFromRecipe(items, gone) ==
    [i \in DOMAIN items |->
        IF items[i].from_recipe_id \in gone
          THEN [items[i] EXCEPT !.from_recipe_id = 0] ELSE items[i]]

\* (mutant) the DELETE removes the recipe row only, as without the foreign
\* keys of recipe_ingredients and shopping_list_items
RecipeDeleteNoCascade(u, id) ==
    LET same == [resp |-> NoResp, recipes |-> recipes,
                 recipe_ingredients |-> recipe_ingredients,
                 shopping_list_items |-> shopping_list_items]
    IN
    IF ~IsIntegerId(id)
      THEN [same EXCEPT !.resp = Invalid("DELETE /recipes/:id", "Invalid recipe id")]
    ELSE IF ~(id \in DOMAIN recipes /\ recipes[id].user_id = u)
      THEN [same EXCEPT !.resp = NotFound("DELETE /recipes/:id", "Recipe not found")]
    ELSE [same EXCEPT !.resp = Ok("DELETE /recipes/:id", 204, NoData),
                      !.recipes = DeleteRows(recipes, {id})]

\* DELETE /recipes/:id
RecipeDeleteOutcome(u, id) ==
    LET same == [resp |-> NoResp, recipes |-> recipes,
                 recipe_ingredients |-> recipe_ingredients,
                 shopping_list_items |-> shopping_list_items]
    IN
    IF ~IsIntegerId(id)
      THEN [same EXCEPT !.resp = Invalid("DELETE /recipes/:id", "Invalid recipe id")]
    ELSE IF ~(id \in DOMAIN recipes /\ recipes[id].user_id = u)
      THEN [same EXCEPT !.resp = NotFound("DELETE /recipes/:id", "Recipe not found")]
    ELSE [resp |-> Ok("DELETE /recipes/:id", 204, NoData),
          recipes |-> DeleteRows(recipes, {id}),
          recipe_ingredients |-> CascadeRecipeIngredients({id}),
          shopping_list_items |-> NullifyFromRecipe(shopping_list_items, {id})]

RecipeDelete(u, id) ==
    LET o == RecipeDeleteOutcome(u, id) IN
    /\ resp' = For(o.resp, u, id)
    /\ recipes' = o.recipes
    /\ recipe_ingredients' = o.recipe_ingredients
    /\ shopping_list_items' = o.shopping_list_items
    /\ UNCHANGED <<env, autoinc, users, refresh_tokens, ingredients, inventory_items, shopping_lists,
                   reg, pending>>

-----------------------------------------------------------------------------
(* Ingredients: the shared catalog *)

\* SELECT id FROM ingredients WHERE name = ?   (column collation utf8mb4_unicode_ci)
IngredientsByName(name) ==
    {i \in DOMAIN ingredients : CollEq(ingredients[i].name, name)}

\* (mutant) POST /ingredients without the SELECT by name
IngredientCreateCheckNoLookup(p, u, name, defaultUnit) ==
    /\ pending[p].pc = "idle"
    /\ IF TooShort(name)
         THEN /\ resp' = For(Invalid("POST /ingredients", "name is required (min 2 chars)"),
                             u, 0)
              /\ UNCHANGED pending
       ELSE /\ pending' = [pending EXCEPT ![p] =
                             [pc |-> "ingredient", sub |-> u, name |-> Trim(name),
                              unit |-> DefaultNull(defaultUnit)]]
            /\ UNCHANGED resp
    /\ UNCHANGED <<env, autoinc, tables, reg>>

\* POST /ingredients up to the existence check; the request is then suspended
\* at await INSERT
IngredientCreateCheck(p, u, name, defaultUnit) ==
    /\ pending[p].pc = "idle"
    /\ IF TooShort(name)
         THEN /\ resp' = For(Invalid("POST /ingredients", "name is required (min 2 chars)"),
                             u, 0)
              /\ UNCHANGED pending
       ELSE IF IngredientsByName(Trim(name)) # {}
         THEN /\ resp' = For(Err("POST /ingredients", 409, "CONFLICT",
                                 "Ingredient already exists"), u, 0)
              /\ UNCHANGED pending
       ELSE /\ pending' = [pending EXCEPT ![p] =
                             [pc |-> "ingredient", sub |-> u, name |-> Trim(name),
                              unit |-> DefaultNull(defaultUnit)]]
            /\ UNCHANGED resp
    /\ UNCHANGED <<env, autoinc, tables, reg>>

\* INSERT INTO ingredients (name, category, default_unit); uq_ingredients_name
\* makes the statement throw on a duplicate name
IngredientCreateInsert(p) ==
    /\ pending[p].pc = "ingredient"
    /\ IF IngredientsByName(pending[p].name) # {}
         THEN /\ resp' = For(InternalError("POST /ingredients", "ER_DUP_ENTRY"),
                             pending[p].sub, 0)
              /\ UNCHANGED <<ingredients, autoinc>>
         ELSE /\ ingredients' = InsertRow(ingredients, autoinc.ingredients,
                                     [name |-> pending[p].name,
                                      default_unit |-> pending[p].unit])
              /\ autoinc' = [autoinc EXCEPT !.ingredients = @ + 1]
              /\ resp' = For(Ok("POST /ingredients", 201, [id |-> autoinc.ingredients]),
                             pending[p].sub, 0)
    /\ pending' = [pending EXCEPT ![p] = Idle]
    /\ UNCHANGED <<env, users, refresh_tokens, recipes, recipe_ingredients, inventory_items,
                   shopping_lists, shopping_list_items, reg>>

-----------------------------------------------------------------------------
(* Recipe ingredients *)

\* bodies of POST /recipes/:id/ingredients: ingredientId 0 is an absent (or
\* falsy) ingredientId
AddBody(ingredientId, ingredientName, quantity, unit) ==
    [ingredientId |-> ingredientId, ingredientName |-> ingredientName,
     quantity |-> quantity, unit |-> unit]

\* the message of the validation error of a body, "" if it is valid
AddIngredientValidation(b) ==
    IF ~IsFinite(NumberOf(b.quantity)) \/ NumberOf(b.quantity) <= 0
      THEN "quantity must be a positive number"
    ELSE IF b.ingredientId = 0 /\ TooShort(b.ingredientName)
      THEN "ingredientId or ingredientName is required"
      ELSE ""

\* POST /recipes/:id/ingredients up to its first await after the ownership
\* check: id check, ownership check, validation of the body.  With an
\* ingredientId the next statement is the INSERT of the recipe ingredient,
\* without one it is the lookup of the name.
AddIngredientBegin(p, u, recipeId, b) ==
    LET op == "POST /recipes/:id/ingredients" IN
    /\ pending[p].pc = "idle"
    /\ IF ~IsIntegerId(recipeId)
         THEN /\ resp' = For(Invalid(op, "Invalid recipe id"), u, recipeId)
              /\ UNCHANGED pending
       ELSE IF ~assertRecipeOwnership(recipeId, u)
         THEN /\ resp' = For(NotFound(op, "Recipe not found"), u, recipeId)
              /\ UNCHANGED pending
       ELSE IF AddIngredientValidation(b) # ""
         THEN /\ resp' = For(Invalid(op, AddIngredientValidation(b)), u, recipeId)
              /\ UNCHANGED pending
       ELSE /\ pending' = [pending EXCEPT ![p] =
                  [pc |-> IF b.ingredientId # 0 THEN "insert" ELSE "find",
                   sub |-> u, recipeId |-> recipeId, body |-> b,
                   ingredientId |-> b.ingredientId,
                   unit |-> DefaultNull(b.unit),
                   created |-> 0]]
            /\ UNCHANGED resp
    /\ UNCHANGED <<env, autoinc, tables, reg>>

\* (mutant) the unit of the request is always replaced by the catalog's
UnitWhenFoundAlwaysDefault(unit, defaultUnit) == OrElse(defaultUnit, unit)

\* if (!unit) unit = found[0].default_unit || unit
UnitWhenFound(unit, defaultUnit) ==
    IF ~Truthy(unit) THEN OrElse(defaultUnit, unit) ELSE unit

\* const cleanName = ingredientName.trim()
CleanName(r) == Trim(r.body.ingredientName)

\* SELECT id, default_unit FROM ingredients WHERE name = ? LIMIT 1
AddIngredientFind(p) ==
    /\ pending[p].pc = "find"
    /\ LET found == IngredientsByName(CleanName(pending[p])) IN
       IF found # {}
         THEN LET id == CHOOSE i \in found : TRUE IN
              pending' = [pending EXCEPT
                            ![p].pc = "insert",
                            ![p].ingredientId = id,
                            ![p].unit = UnitWhenFound(@, ingredients[id].default_unit)]
         ELSE pending' = [pending EXCEPT ![p].pc = "create"]
    /\ UNCHANGED <<env, autoinc, tables, reg, resp>>

\* INSERT INTO ingredients (name, category, default_unit) VALUES (cleanName, NULL, unit)
AddIngredientCreate(p) ==
    /\ pending[p].pc = "create"
    /\ IF IngredientsByName(CleanName(pending[p])) # {}
         THEN /\ resp' = For(InternalError("POST /recipes/:id/ingredients", "ER_DUP_ENTRY"),
                             pending[p].sub, pending[p].recipeId)
              /\ pending' = [pending EXCEPT ![p] = Idle]
              /\ UNCHANGED <<ingredients, autoinc>>
         ELSE /\ ingredients' = InsertRow(ingredients, autoinc.ingredients,
                                     [name |-> CleanName(pending[p]),
                                      default_unit |-> pending[p].unit])
              /\ autoinc' = [autoinc EXCEPT !.ingredients = @ + 1]
              /\ pending' = [pending EXCEPT ![p].pc = "insert",
                                            ![p].ingredientId = autoinc.ingredients,
                                            ![p].created = autoinc.ingredients]
              /\ UNCHANGED resp
    /\ UNCHANGED <<env, users, refresh_tokens, recipes, recipe_ingredients, inventory_items,
                   shopping_lists, shopping_list_items, reg>>

\* (mutant) recipe_ingredients without its foreign keys
RecipeIngredientInsertErrorNoForeignKey(recipeId, ingredientId) ==
    IF \E ri \in DOMAIN recipe_ingredients :
          /\ recipe_ingredients[ri].recipe_id = recipeId
          /\ recipe_ingredients[ri].ingredient_id = ingredientId
      THEN "ER_DUP_ENTRY"
      ELSE ""

\* (mutant) recipe_ingredients without the unique key uq_recipe_ingredient
RecipeIngredientInsertErrorNoUnique(recipeId, ingredientId) ==
    IF recipeId \notin DOMAIN recipes \/ ingredientId \notin DOMAIN ingredients
      THEN "ER_NO_REFERENCED_ROW_2"
      ELSE ""

\* the error of INSERT INTO recipe_ingredients, "" if the row is accepted:
\* fk_recipe_ingredients_recipe, fk_recipe_ingredients_ingredient, uq_recipe_ingredient
RecipeIngredientInsertError(recipeId, ingredientId) ==
    IF recipeId \notin DOMAIN recipes \/ ingredientId \notin DOMAIN ingredients
      THEN "ER_NO_REFERENCED_ROW_2"
    ELSE IF \E ri \in DOMAIN recipe_ingredients :
               /\ recipe_ingredients[ri].recipe_id = recipeId
               /\ recipe_ingredients[ri].ingredient_id = ingredientId
      THEN "ER_DUP_ENTRY"
      ELSE ""

\* INSERT INTO recipe_ingredients (recipe_id, ingredient_id, quantity, unit, note)
AddIngredientInsert(p) ==
    LET op == "POST /recipes/:id/ingredients"
        r == pending[p]
        e == RecipeIngredientInsertError(r.recipeId, r.ingredientId)
    IN
    /\ r.pc = "insert"
    /\ IF e # ""
         THEN /\ resp' = For(InternalError(op, e), r.sub, r.recipeId)
              /\ UNCHANGED <<recipe_ingredients, autoinc>>
         ELSE /\ Room
              /\ recipe_ingredients' =
                    InsertRow(recipe_ingredients, autoinc.recipe_ingredients,
                              [recipe_id |-> r.recipeId, ingredient_id |-> r.ingredientId,
                               quantity |-> NumberOf(r.body.quantity), unit |-> r.unit])
              /\ autoinc' = [autoinc EXCEPT !.recipe_ingredients = @ + 1]
              /\ resp' = For(Ok(op, 201, [id |-> autoinc.recipe_ingredients]),
                             r.sub, r.recipeId)
    /\ pending' = [pending EXCEPT ![p] = Idle]
    /\ UNCHANGED <<env, users, refresh_tokens, ingredients, recipes, inventory_items,
                   shopping_lists, shopping_list_items, reg>>

\* bodies of PATCH /recipes/:id/ingredients/:riId (note is not modelled)
RIPatchBody(quantity, unit) == [quantity |-> quantity, unit |-> unit]

\* (mutant) the UPDATE is not restricted to the recipe of the path
RecipeIngredientPatchAnyRecipe(u, recipeId, riId, b) ==
    LET op == "PATCH /recipes/:id/ingredients/:riId"
        same(r) == [resp |-> r, recipe_ingredients |-> recipe_ingredients]
        q == NumberOf(b.quantity)
    IN
    IF ~IsIntegerId(recipeId) \/ ~IsIntegerId(riId)
      THEN same(Invalid(op, "Invalid id"))
    ELSE IF ~assertRecipeOwnership(recipeId, u)
      THEN same(NotFound(op, "Recipe not found"))
    ELSE IF b.quantity # "undefined" /\ (~IsFinite(q) \/ q <= 0)
      THEN same(Invalid(op, "quantity must be a positive number"))
    ELSE IF b.quantity = "undefined" /\ b.unit = "undefined"
      THEN same(Invalid(op, "No fields to update"))
    ELSE IF riId \notin DOMAIN recipe_ingredients
      THEN same(NotFound(op, "Recipe ingredient not found"))
    ELSE [resp |-> Ok(op, 200, [updated |-> TRUE]),
          recipe_ingredients |->
             [recipe_ingredients EXCEPT
                ![riId].quantity = IF b.quantity # "undefined" THEN q ELSE @,
                ![riId].unit = IF b.unit # "undefined" THEN b.unit ELSE @]]

\* PATCH /recipes/:id/ingredients/:riId
RecipeIngredientPatchOutcome(u, recipeId, riId, b) ==
    LET op == "PATCH /recipes/:id/ingredients/:riId"
        same(r) == [resp |-> r, recipe_ingredients |-> recipe_ingredients]
        q == NumberOf(b.quantity)
    IN
    IF ~IsIntegerId(recipeId) \/ ~IsIntegerId(riId)
      THEN same(Invalid(op, "Invalid id"))
    ELSE IF ~assertRecipeOwnership(recipeId, u)
      THEN same(NotFound(op, "Recipe not found"))
    ELSE IF b.quantity # "undefined" /\ (~IsFinite(q) \/ q <= 0)
      THEN same(Invalid(op, "quantity must be a positive number"))
    ELSE IF b.quantity = "undefined" /\ b.unit = "undefined"
      THEN same(Invalid(op, "No fields to update"))
    ELSE IF ~(riId \in DOMAIN recipe_ingredients
              /\ recipe_ingredients[riId].recipe_id = recipeId)
      THEN same(NotFound(op, "Recipe ingredient not found"))
    ELSE [resp |-> Ok(op, 200, [updated |-> TRUE]),
          recipe_ingredients |->
             [recipe_ingredients EXCEPT
                ![riId].quantity = IF b.quantity # "undefined" THEN q ELSE @,
                ![riId].unit = IF b.unit # "undefined" THEN b.unit ELSE @]]

RecipeIngredientPatch(u, recipeId, riId, b) ==
    LET o == RecipeIngredientPatchOutcome(u, recipeId, riId, b) IN
    /\ resp' = For(o.resp, u, recipeId)
    /\ recipe_ingredients' = o.recipe_ingredients
    /\ UNCHANGED <<env, autoinc, users, refresh_tokens, ingredients, recipes, inventory_items,
                   shopping_lists, shopping_list_items, reg, pending>>

\* DELETE /recipes/:id/ingredients/:riId
RecipeIngredientDeleteOutcome(u, recipeId, riId) ==
    LET op == "DELETE /recipes/:id/ingredients/:riId"
        same(r) == [resp |-> r, recipe_ingredients |-> recipe_ingredients]
    IN
    IF ~IsIntegerId(recipeId) \/ ~IsIntegerId(riId)
      THEN same(Invalid(op, "Invalid id"))
    ELSE IF ~assertRecipeOwnership(recipeId, u)
      THEN same(NotFound(op, "Recipe not found"))
    ELSE IF ~(riId \in DOMAIN recipe_ingredients
              /\ recipe_ingredients[riId].recipe_id = recipeId)
      THEN same(NotFound(op, "Recipe ingredient not found"))
    ELSE [resp |-> Ok(op, 204, NoData),
          recipe_ingredients |-> DeleteRows(recipe_ingredients, {riId})]

RecipeIngredientDelete(u, recipeId, riId) ==
    LET o == RecipeIngredientDeleteOutcome(u, recipeId, riId) IN
    /\ resp' = For(o.resp, u, recipeId)
    /\ recipe_ingredients' = o.recipe_ingredients
    /\ UNCHANGED <<env, autoinc, users, refresh_tokens, ingredients, recipes, inventory_items,
                   shopping_lists, shopping_list_items, reg, pending>>

-----------------------------------------------------------------------------
(* Inventory *)

\* SELECT id FROM inventory_items WHERE id = ? AND user_id = ? LIMIT 1
assertInventoryOwnership(itemId, userId) ==
    itemId \in DOMAIN inventory_items /\ inventory_items[itemId].user_id = userId

\* a text value that is undefined, null or ""
Falsy(text) == text = UNDEFINED \/ text = NULL \/ text = <<>>

\* a decimal column that is NULL
NullDecimal == 0 - 8888

\* a date column that is NULL, and an expiresAt that is absent from the body
\* or null; a date is the number of its day
NullDate == 0

\* bodies of POST /inventory/items without minQuantity and expiresAt
InvBody(ingredientId, customName, quantity, unit, location) ==
    [ingredientId |-> ingredientId, customName |-> customName,
     quantity |-> quantity, unit |-> unit, location |-> location,
     minQuantity |-> "undefined", expiresAt |-> NullDate]

\* the body b with a minQuantity (JSON text) and an expiresAt (a date)
Stocked(b, minQuantity, expiresAt) ==
    [b EXCEPT !.minQuantity = minQuantity, !.expiresAt = expiresAt]

\* the value of min_quantity that the INSERT stores for the body's minQuantity
MinQuantityOf(minQuantity) ==
    IF minQuantity \in {"undefined", "null"} THEN NullDecimal ELSE NumberOf(minQuantity)

\* POST /inventory/items
InventoryCreateOutcome(u, b) ==
    LET op == "POST /inventory/items"
        same(r) == [resp |-> r, inventory_items |-> inventory_items]
        q == NumberOf(b.quantity)
    IN
    IF ~IsFinite(q) \/ q < 0
      THEN same(Invalid(op, "quantity must be a number >= 0"))
    ELSE IF ~Truthy(b.unit)
      THEN same(Invalid(op, "unit is required"))
    ELSE IF ~Truthy(b.location)
      THEN same(Invalid(op, "location is required"))
    ELSE IF b.ingredientId = 0 /\ TooShort(b.customName)
      THEN same(Invalid(op, "ingredientId or customName is required"))
    ELSE IF b.ingredientId # 0 /\ b.ingredientId \notin DOMAIN ingredients
      THEN same(Invalid(op, "ingredientId does not exist"))
    ELSE IF ~IsFinite(MinQuantityOf(b.minQuantity))
      THEN same(InternalError(op, "Incorrect decimal value"))
    ELSE [resp |-> Ok(op, 201, [id |-> autoinc.inventory_items]),
          inventory_items |->
             InsertRow(inventory_items, autoinc.inventory_items,
                       [user_id |-> u, ingredient_id |-> b.ingredientId,
                        custom_name |-> IF Falsy(b.customName) THEN NULL
                                                               ELSE Trim(b.customName),
                        quantity |-> q, unit |-> b.unit, location |-> b.location,
                        expires_at |-> b.expiresAt,
                        min_quantity |-> MinQuantityOf(b.minQuantity)])]

InventoryCreate(u, b) ==
    LET o == InventoryCreateOutcome(u, b) IN
    /\ o.resp.status = 201 => Room
    /\ resp' = For(o.resp, u, 0)
    /\ inventory_items' = o.inventory_items
    /\ autoinc' = IF o.resp.status = 201
                    THEN [autoinc EXCEPT !.inventory_items = @ + 1] ELSE autoinc
    /\ UNCHANGED <<env, users, refresh_tokens, ingredients, recipes, recipe_ingredients,
                   shopping_lists, shopping_list_items, reg, pending>>

\* bodies of PATCH /inventory/items/:id (location, expiresAt and minQuantity
\* are not modelled)
InvPatchBody(quantity, unit, customName) ==
    [quantity |-> quantity, unit |-> unit, customName |-> customName]

\* PATCH /inventory/items/:id
InventoryPatchOutcome(u, id, b) ==
    LET op == "PATCH /inventory/items/:id"
        same(r) == [resp |-> r, inventory_items |-> inventory_items]
        q == NumberOf(b.quantity)
    IN
    IF ~IsIntegerId(id)
      THEN same(Invalid(op, "Invalid id"))
    ELSE IF ~assertInventoryOwnership(id, u)
      THEN same(NotFound(op, "Inventory item not found"))
    ELSE IF b.quantity # "undefined" /\ (~IsFinite(q) \/ q < 0)
      THEN same(Invalid(op, "quantity must be a number >= 0"))
    ELSE IF b.customName # UNDEFINED /\ b.customName # NULL /\ Len(Trim(b.customName)) < 2
      THEN same(Invalid(op, "customName must be null or min 2 chars"))
    ELSE IF b.quantity = "undefined" /\ b.unit = "undefined" /\ b.customName = UNDEFINED
      THEN same(Invalid(op, "No fields to update"))
    ELSE [resp |-> Ok(op, 200, [updated |-> TRUE]),
          inventory_items |->
             [inventory_items EXCEPT
                ![id].quantity = IF b.quantity # "undefined" THEN q ELSE @,
                ![id].unit = IF b.unit # "undefined" THEN b.unit ELSE @,
                ![id].custom_name =
                    IF b.customName = UNDEFINED THEN @
                    ELSE IF Falsy(b.customName) THEN NULL ELSE Trim(b.customName)]]

InventoryPatch(u, id, b) ==
    LET o == InventoryPatchOutcome(u, id, b) IN
    /\ resp' = For(o.resp, u, id)
    /\ inventory_items' = o.inventory_items
    /\ UNCHANGED <<env, autoinc, users, refresh_tokens, ingredients, recipes, recipe_ingredients,
                   shopping_lists, shopping_list_items, reg, pending>>

\* DELETE /inventory/items/:id
InventoryDeleteOutcome(u, id) ==
    LET op == "DELETE /inventory/items/:id"
        same(r) == [resp |-> r, inventory_items |-> inventory_items]
    IN
    IF ~IsIntegerId(id)
      THEN same(Invalid(op, "Invalid id"))
    ELSE IF ~(id \in DOMAIN inventory_items /\ inventory_items[id].user_id = u)
      THEN same(NotFound(op, "Inventory item not found"))
    ELSE [resp |-> Ok(op, 204, NoData),
          inventory_items |-> DeleteRows(inventory_items, {id})]

InventoryDelete(u, id) ==
    LET o == InventoryDeleteOutcome(u, id) IN
    /\ resp' = For(o.resp, u, id)
    /\ inventory_items' = o.inventory_items
    /\ UNCHANGED <<env, autoinc, users, refresh_tokens, ingredients, recipes, recipe_ingredients,
                   shopping_lists, shopping_list_items, reg, pending>>

-----------------------------------------------------------------------------
(* Shopping lists *)

\* parseId: the number if it is a positive integer, else null (0)
ParseId(param) == IF param = NaN \/ param <= 0 THEN 0 ELSE param

\* String(text) of a text field of the body: null becomes the text "null", a
\* JSON number its decimal digits
StringOf(text) ==
    IF text = NULL THEN <<"n", "u", "l", "l">>
    ELSE IF text = NUMBER THEN <<"7">>
    ELSE text

\* (text || "")
OrEmpty(text) == IF Falsy(text) THEN <<>> ELSE text

\* the default status of POST /shopping-lists
Active == <<"a", "c", "t", "i", "v", "e">>

MaxStatusLength == 20

\* SELECT id FROM shopping_lists WHERE id = ? AND user_id = ?
ensureShoppingListOwned(listId, userId) ==
    listId \in DOMAIN shopping_lists /\ shopping_lists[listId].user_id = userId

\* rows of shopping_list_items of a list
ItemsOf(listId) ==
    {i \in DOMAIN shopping_list_items : shopping_list_items[i].shopping_list_id = listId}

\* bodies of POST and PATCH /shopping-lists
ListBody(name, status) == [name |-> name, status |-> status]

\* POST /shopping-lists
ShoppingListCreateOutcome(u, b) ==
    LET op == "POST /shopping-lists"
        same(r) == [resp |-> r, shopping_lists |-> shopping_lists]
        name == Trim(OrEmpty(b.name))
        status == Trim(IF Falsy(b.status) THEN Active ELSE b.status)
    IN
    IF name = <<>>
      THEN same(Invalid(op, "name is required"))
    ELSE IF Len(status) > MaxStatusLength
      THEN same(Invalid(op, "status is too long"))
    ELSE [resp |-> Ok(op, 201, [id |-> autoinc.shopping_lists]),
          shopping_lists |->
             InsertRow(shopping_lists, autoinc.shopping_lists,
                       [user_id |-> u, name |-> name, status |-> status])]

ShoppingListCreate(u, b) ==
    LET o == ShoppingListCreateOutcome(u, b) IN
    /\ o.resp.status = 201 => Room
    /\ resp' = For(o.resp, u, 0)
    /\ shopping_lists' = o.shopping_lists
    /\ autoinc' = IF o.resp.status = 201
                    THEN [autoinc EXCEPT !.shopping_lists = @ + 1] ELSE autoinc
    /\ UNCHANGED <<env, users, refresh_tokens, ingredients, recipes, recipe_ingredients,
                   inventory_items, shopping_list_items, reg, pending>>

\* PATCH /shopping-lists/:id
ShoppingListPatchOutcome(u, id, b) ==
    LET op == "PATCH /shopping-lists/:id"
        same(r) == [resp |-> r, shopping_lists |-> shopping_lists]
        lid == ParseId(id)
        name == Trim(OrEmpty(b.name))
        status == Trim(OrEmpty(b.status))
    IN
    IF lid = 0
      THEN same(Invalid(op, "Invalid id"))
    ELSE IF b.name # UNDEFINED /\ name = <<>>
      THEN same(Invalid(op, "name cannot be empty"))
    ELSE IF b.status # UNDEFINED /\ status = <<>>
      THEN same(Invalid(op, "status cannot be empty"))
    ELSE IF b.status # UNDEFINED /\ Len(status) > MaxStatusLength
      THEN same(Invalid(op, "status is too long"))
    ELSE IF b.name = UNDEFINED /\ b.status = UNDEFINED
      THEN same(Invalid(op, "No fields to update"))
    ELSE IF ~ensureShoppingListOwned(lid, u)
      THEN same(NotFound(op, "Shopping list not found"))
    ELSE [resp |-> Ok(op, 200, [updated |-> TRUE]),
          shopping_lists |->
             [shopping_lists EXCEPT
                ![lid].name = IF b.name # UNDEFINED THEN name ELSE @,
                ![lid].status = IF b.status # UNDEFINED THEN status ELSE @]]

ShoppingListPatch(u, id, b) ==
    LET o == ShoppingListPatchOutcome(u, id, b) IN
    /\ resp' = For(o.resp, u, id)
    /\ shopping_lists' = o.shopping_lists
    /\ UNCHANGED <<env, autoinc, users, refresh_tokens, ingredients, recipes, recipe_ingredients,
                   inventory_items, shopping_list_items, reg, pending>>

\* DELETE /shopping-lists/:id (fk_shopping_items_list ON DELETE CASCADE)
ShoppingListDeleteOutcome(u, id) ==
    LET op == "DELETE /shopping-lists/:id"
        same(r) == [resp |-> r, shopping_lists |-> shopping_lists,
                    shopping_list_items |-> shopping_list_items]
        lid == ParseId(id)
    IN
    IF lid = 0
      THEN same(Invalid(op, "Invalid id"))
    ELSE IF ~ensureShoppingListOwned(lid, u)
      THEN same(NotFound(op, "Shopping list not found"))
    ELSE [resp |-> Ok(op, 204, NoData),
          shopping_lists |-> DeleteRows(shopping_lists, {lid}),
          shopping_list_items |-> DeleteRows(shopping_list_items, ItemsOf(lid))]

ShoppingListDelete(u, id) ==
    LET o == ShoppingListDeleteOutcome(u, id) IN
    /\ resp' = For(o.resp, u, id)
    /\ shopping_lists' = o.shopping_lists
    /\ shopping_list_items' = o.shopping_list_items
    /\ UNCHANGED <<env, autoinc, users, refresh_tokens, ingredients, recipes, recipe_ingredients,
                   inventory_items, reg, pending>>

-----------------------------------------------------------------------------
(* Shopping list items *)

\* a number field that is absent from the body
Absent == 0 - 1

\* bodies of POST and PATCH /shopping-lists/:id/items[/:itemId] (unit is not
\* modelled); isChecked is "undefined", "true" or "false"
ItemBody(ingredientId, customName, quantity, isChecked, fromRecipeId) ==
    [ingredientId |-> ingredientId, customName |-> customName,
     quantity |-> quantity, isChecked |-> isChecked, fromRecipeId |-> fromRecipeId]

\* the statement is rejected by the store: a quantity that is no decimal, or
\* a from_recipe_id without a recipes row (fk_shopping_items_recipe)
ItemStoreError(quantity, fromRecipeId) ==
    \/ quantity = "abc"
    \/ (fromRecipeId # 0 /\ fromRecipeId \notin DOMAIN recipes)

\* POST /shopping-lists/:id/items
ItemCreateOutcome(u, listId, b) ==
    LET op == "POST /shopping-lists/:id/items"
        same(r) == [resp |-> r, shopping_list_items |-> shopping_list_items]
        lid == ParseId(listId)
        ingredientId == ParseId(b.ingredientId)
        customName == Trim(OrEmpty(b.customName))
        quantity == IF b.quantity = "undefined" THEN "null" ELSE b.quantity
        fromRecipeId == ParseId(b.fromRecipeId)
    IN
    IF lid = 0
      THEN same(Invalid(op, "Invalid list id"))
    ELSE IF ~ensureShoppingListOwned(lid, u)
      THEN same(NotFound(op, "Shopping list not found"))
    ELSE IF ingredientId = 0 /\ customName = <<>>
      THEN same(Invalid(op, "ingredientId or customName is required"))
    ELSE IF ingredientId # 0 /\ ingredientId \notin DOMAIN ingredients
      THEN same(Invalid(op, "ingredientId not found"))
    ELSE IF ItemStoreError(quantity, fromRecipeId)
      THEN same(InternalError(op, "Failed to create shopping list item"))
    ELSE [resp |-> Ok(op, 201, [id |-> autoinc.shopping_list_items]),
          shopping_list_items |->
             InsertRow(shopping_list_items, autoinc.shopping_list_items,
                       [shopping_list_id |-> lid,
                        ingredient_id |-> ingredientId,
                        custom_name |-> IF ingredientId # 0 THEN NULL ELSE customName,
                        quantity |-> quantity,
                        is_checked |-> FALSE,
                        from_recipe_id |-> fromRecipeId])]

\* (mutant) a custom name without a row in the catalog is inserted into
\* ingredients, as POST /recipes/:id/ingredients does
ItemCreateResolving(u, listId, b) ==
    LET o == ItemCreateOutcome(u, listId, b)
        customName == Trim(OrEmpty(b.customName))
        create == /\ o.resp.status = 201
                  /\ ParseId(b.ingredientId) = 0
                  /\ IngredientsByName(customName) = {}
    IN
    /\ o.resp.status = 201 => Room
    /\ resp' = For(o.resp, u, listId)
    /\ shopping_list_items' = o.shopping_list_items
    /\ ingredients' = IF create
                        THEN InsertRow(ingredients, autoinc.ingredients,
                                       [name |-> customName, default_unit |-> "null"])
                        ELSE ingredients
    /\ autoinc' = IF o.resp.status = 201
                    THEN [autoinc EXCEPT
                            !.shopping_list_items = @ + 1,
                            !.ingredients = IF create THEN @ + 1 ELSE @]
                    ELSE autoinc
    /\ UNCHANGED <<env, users, refresh_tokens, recipes, recipe_ingredients,
                   inventory_items, shopping_lists, reg, pending>>

ItemCreate(u, listId, b) ==
    LET o == ItemCreateOutcome(u, listId, b) IN
    /\ o.resp.status = 201 => Room
    /\ resp' = For(o.resp, u, listId)
    /\ shopping_list_items' = o.shopping_list_items
    /\ autoinc' = IF o.resp.status = 201
                    THEN [autoinc EXCEPT !.shopping_list_items = @ + 1] ELSE autoinc
    /\ UNCHANGED <<env, users, refresh_tokens, ingredients, recipes, recipe_ingredients,
                   inventory_items, shopping_lists, reg, pending>>

\* the row of an item after the UPDATE of PATCH /shopping-lists/:id/items/:itemId
ItemPatched(row, b) ==
    LET ingredientId == ParseId(b.ingredientId)
        named == b.ingredientId # Absent \/ b.customName # UNDEFINED
    IN
    [row EXCEPT
       !.ingredient_id = IF named THEN ingredientId ELSE @,
       !.custom_name = IF ~named THEN @
                       ELSE IF ingredientId # 0 THEN NULL
                       ELSE Trim(StringOf(b.customName)),
       !.quantity = IF b.quantity # "undefined" THEN b.quantity ELSE @,
       !.is_checked = IF b.isChecked # "undefined" THEN b.isChecked = "true" ELSE @,
       !.from_recipe_id = IF b.fromRecipeId # Absent THEN ParseId(b.fromRecipeId) ELSE @]

\* (mutant) the fields are written before the ingredientId is looked up
ItemPatchWritesFirst(u, listId, itemId, b) ==
    LET op == "PATCH /shopping-lists/:id/items/:itemId"
        same(r) == [resp |-> r, shopping_list_items |-> shopping_list_items]
        lid == ParseId(listId)
        iid == ParseId(itemId)
        ingredientId == ParseId(b.ingredientId)
        customName == IF b.customName # UNDEFINED THEN Trim(StringOf(b.customName)) ELSE <<>>
        named == b.ingredientId # Absent \/ b.customName # UNDEFINED
    IN
    IF lid = 0 \/ iid = 0
      THEN same(Invalid(op, "Invalid id"))
    ELSE IF ~ensureShoppingListOwned(lid, u)
      THEN same(NotFound(op, "Shopping list not found"))
    ELSE IF named /\ ingredientId = 0 /\ customName = <<>>
      THEN same(Invalid(op, "ingredientId or customName is required"))
    ELSE IF named /\ ingredientId # 0 /\ ingredientId \notin DOMAIN ingredients
      THEN [resp |-> Invalid(op, "ingredientId not found"),
            shopping_list_items |->
               IF iid \in ItemsOf(lid)
                 THEN [shopping_list_items EXCEPT
                         ![iid] = ItemPatched(@, [b EXCEPT !.ingredientId = Absent,
                                                          !.customName = UNDEFINED,
                                                          !.fromRecipeId = Absent])]
                 ELSE shopping_list_items]
    ELSE IF /\ ~named /\ b.quantity = "undefined" /\ b.isChecked = "undefined"
            /\ b.fromRecipeId = Absent
      THEN same(Invalid(op, "No fields to update"))
    ELSE IF iid \notin ItemsOf(lid)
      THEN same(NotFound(op, "Item not found"))
    ELSE IF ItemStoreError(b.quantity, ParseId(b.fromRecipeId))
      THEN same(InternalError(op, "Failed to update shopping list item"))
    ELSE [resp |-> Ok(op, 200, [updated |-> TRUE]),
          shopping_list_items |->
             [shopping_list_items EXCEPT ![iid] = ItemPatched(@, b)]]

\* PATCH /shopping-lists/:id/items/:itemId
ItemPatchOutcome(u, listId, itemId, b) ==
    LET op == "PATCH /shopping-lists/:id/items/:itemId"
        same(r) == [resp |-> r, shopping_list_items |-> shopping_list_items]
        lid == ParseId(listId)
        iid == ParseId(itemId)
        ingredientId == ParseId(b.ingredientId)
        customName == IF b.customName # UNDEFINED THEN Trim(StringOf(b.customName)) ELSE <<>>
        named == b.ingredientId # Absent \/ b.customName # UNDEFINED
    IN
    IF lid = 0 \/ iid = 0
      THEN same(Invalid(op, "Invalid id"))
    ELSE IF ~ensureShoppingListOwned(lid, u)
      THEN same(NotFound(op, "Shopping list not found"))
    ELSE IF named /\ ingredientId = 0 /\ customName = <<>>
      THEN same(Invalid(op, "ingredientId or customName is required"))
    ELSE IF named /\ ingredientId # 0 /\ ingredientId \notin DOMAIN ingredients
      THEN same(Invalid(op, "ingredientId not found"))
    ELSE IF /\ ~named /\ b.quantity = "undefined" /\ b.isChecked = "undefined"
            /\ b.fromRecipeId = Absent
      THEN same(Invalid(op, "No fields to update"))
    ELSE IF iid \notin ItemsOf(lid)
      THEN same(NotFound(op, "Item not found"))
    ELSE IF ItemStoreError(b.quantity, ParseId(b.fromRecipeId))
      THEN same(InternalError(op, "Failed to update shopping list item"))
    ELSE [resp |-> Ok(op, 200, [updated |-> TRUE]),
          shopping_list_items |->
             [shopping_list_items EXCEPT ![iid] = ItemPatched(@, b)]]

ItemPatch(u, listId, itemId, b) ==
    LET o == ItemPatchOutcome(u, listId, itemId, b) IN
    /\ resp' = For(o.resp, u, listId)
    /\ shopping_list_items' = o.shopping_list_items
    /\ UNCHANGED <<env, autoinc, users, refresh_tokens, ingredients, recipes, recipe_ingredients,
                   inventory_items, shopping_lists, reg, pending>>

\* (mutant) the DELETE statement names the item id alone, not the list
ItemDeleteAnyList(u, listId, itemId) ==
    LET op == "DELETE /shopping-lists/:id/items/:itemId"
        same(r) == [resp |-> r, shopping_list_items |-> shopping_list_items]
        lid == ParseId(listId)
        iid == ParseId(itemId)
    IN
    IF lid = 0 \/ iid = 0
      THEN same(Invalid(op, "Invalid id"))
    ELSE IF ~ensureShoppingListOwned(lid, u)
      THEN same(NotFound(op, "Shopping list not found"))
    ELSE IF iid \notin DOMAIN shopping_list_items
      THEN same(NotFound(op, "Item not found"))
    ELSE [resp |-> Ok(op, 204, NoData),
          shopping_list_items |-> DeleteRows(shopping_list_items, {iid})]

\* DELETE /shopping-lists/:id/items/:itemId
ItemDeleteOutcome(u, listId, itemId) ==
    LET op == "DELETE /shopping-lists/:id/items/:itemId"
        same(r) == [resp |-> r, shopping_list_items |-> shopping_list_items]
        lid == ParseId(listId)
        iid == ParseId(itemId)
    IN
    IF lid = 0 \/ iid = 0
      THEN same(Invalid(op, "Invalid id"))
    ELSE IF ~ensureShoppingListOwned(lid, u)
      THEN same(NotFound(op, "Shopping list not found"))
    ELSE IF iid \notin ItemsOf(lid)
      THEN same(NotFound(op, "Item not found"))
    ELSE [resp |-> Ok(op, 204, NoData),
          shopping_list_items |-> DeleteRows(shopping_list_items, {iid})]

ItemDelete(u, listId, itemId) ==
    LET o == ItemDeleteOutcome(u, listId, itemId) IN
    /\ resp' = For(o.resp, u, listId)
    /\ shopping_list_items' = o.shopping_list_items
    /\ UNCHANGED <<env, autoinc, users, refresh_tokens, ingredients, recipes, recipe_ingredients,
                   inventory_items, shopping_lists, reg, pending>>

\* an element of items[] of the bulk body
BulkItem(id, isChecked, quantity) ==
    [id |-> id, isChecked |-> isChecked, quantity |-> quantity]

\* the body of the bulk update: array says whether items is a JSON array
BulkBody(array, items) == [array |-> array, items |-> items]

\* the loop of the bulk update over the elements not yet handled: one UPDATE
\* per element, an element without a valid id or without fields is skipped,
\* and a statement the store rejects ends the loop in the catch block
RECURSIVE BulkLoop(_, _, _, _)
BulkLoop(items, listId, table, updatedCount) ==
    IF items = <<>>
      THEN [failed |-> FALSE, table |-> table, updatedCount |-> updatedCount]
    ELSE LET it == Head(items)
             itemId == ParseId(it.id)
         IN
      IF itemId = 0 \/ (it.isChecked = "undefined" /\ it.quantity = "undefined")
        THEN BulkLoop(Tail(items), listId, table, updatedCount)
      ELSE IF ~(itemId \in DOMAIN table /\ table[itemId].shopping_list_id = listId)
        THEN BulkLoop(Tail(items), listId, table, updatedCount)
      ELSE IF it.quantity = "abc"
        THEN [failed |-> TRUE, table |-> table, updatedCount |-> updatedCount]
      ELSE BulkLoop(Tail(items), listId,
                    [table EXCEPT
                       ![itemId].is_checked =
                           IF it.isChecked # "undefined" THEN it.isChecked = "true" ELSE @,
                       ![itemId].quantity =
                           IF it.quantity # "undefined" THEN it.quantity ELSE @],
                    updatedCount + 1)

\* (mutant) updatedCount counts every element of items[]
ItemsBulkCountsEntries(u, listId, b) ==
    LET op == "PATCH /shopping-lists/:id/items:bulk"
        same(r) == [resp |-> r, shopping_list_items |-> shopping_list_items]
        lid == ParseId(listId)
    IN
    IF lid = 0
      THEN same(Invalid(op, "Invalid list id"))
    ELSE IF ~ensureShoppingListOwned(lid, u)
      THEN same(NotFound(op, "Shopping list not found"))
    ELSE IF ~b.array \/ b.items = <<>>
      THEN same(Invalid(op, "items[] is required"))
    ELSE LET l == BulkLoop(b.items, lid, shopping_list_items, 0) IN
      [resp |-> IF l.failed
                  THEN InternalError(op, "Failed to bulk update items")
                  ELSE Ok(op, 200, [updatedCount |-> Len(b.items)]),
       shopping_list_items |-> l.table]

\* PATCH /shopping-lists/:id/items:bulk
ItemsBulkOutcome(u, listId, b) ==
    LET op == "PATCH /shopping-lists/:id/items:bulk"
        same(r) == [resp |-> r, shopping_list_items |-> shopping_list_items]
        lid == ParseId(listId)
    IN
    IF lid = 0
      THEN same(Invalid(op, "Invalid list id"))
    ELSE IF ~ensureShoppingListOwned(lid, u)
      THEN same(NotFound(op, "Shopping list not found"))
    ELSE IF ~b.array \/ b.items = <<>>
      THEN same(Invalid(op, "items[] is required"))
    ELSE LET l == BulkLoop(b.items, lid, shopping_list_items, 0) IN
      [resp |-> IF l.failed
                  THEN InternalError(op, "Failed to bulk update items")
                  ELSE Ok(op, 200, [updatedCount |-> l.updatedCount]),
       shopping_list_items |-> l.table]

ItemsBulk(u, listId, b) ==
    LET o == ItemsBulkOutcome(u, listId, b) IN
    /\ resp' = For(o.resp, u, listId)
    /\ shopping_list_items' = o.shopping_list_items
    /\ UNCHANGED <<env, autoinc, users, refresh_tokens, ingredients, recipes, recipe_ingredients,
                   inventory_items, shopping_lists, reg, pending>>

\* (mutant) the DELETE leaves out is_checked = 1
ClearCheckedAllItems(u, listId) ==
    LET op == "POST /shopping-lists/:id/items:clearChecked"
        same(r) == [resp |-> r, shopping_list_items |-> shopping_list_items]
        lid == ParseId(listId)
    IN
    IF lid = 0
      THEN same(Invalid(op, "Invalid list id"))
    ELSE IF ~ensureShoppingListOwned(lid, u)
      THEN same(NotFound(op, "Shopping list not found"))
    ELSE [resp |-> Ok(op, 200, [deletedCount |-> Cardinality(ItemsOf(lid))]),
          shopping_list_items |-> DeleteRows(shopping_list_items, ItemsOf(lid))]

\* POST /shopping-lists/:id/items:clearChecked
ClearCheckedOutcome(u, listId) ==
    LET op == "POST /shopping-lists/:id/items:clearChecked"
        same(r) == [resp |-> r, shopping_list_items |-> shopping_list_items]
        lid == ParseId(listId)
        checked == {i \in ItemsOf(lid) : shopping_list_items[i].is_checked}
    IN
    IF lid = 0
      THEN same(Invalid(op, "Invalid list id"))
    ELSE IF ~ensureShoppingListOwned(lid, u)
      THEN same(NotFound(op, "Shopping list not found"))
    ELSE [resp |-> Ok(op, 200, [deletedCount |-> Cardinality(checked)]),
          shopping_list_items |-> DeleteRows(shopping_list_items, checked)]

ClearChecked(u, listId) ==
    LET o == ClearCheckedOutcome(u, listId) IN
    /\ resp' = For(o.resp, u, listId)
    /\ shopping_list_items' = o.shopping_list_items
    /\ UNCHANGED <<env, autoinc, users, refresh_tokens, ingredients, recipes, recipe_ingredients,
                   inventory_items, shopping_lists, reg, pending>>

-----------------------------------------------------------------------------
(* The recipe service: recipes, the catalog and recipe ingredients, for the
   subjects of two registered users *)

\* the store after two sign-ups (a state of SpecAuth), no request in flight
InitTwoUsers ==
    /\ env = ProductionEnv
    /\ autoinc = [users |-> 3, ingredients |-> 1, recipes |-> 1,
                  recipe_ingredients |-> 1, inventory_items |-> 1,
                  shopping_lists |-> 1, shopping_list_items |-> 1]
    /\ users = (1 :> [email |-> <<"a", "@">>, password_hash |-> BcryptHash("password1")])
            @@ (2 :> [email |-> <<"b", "@">>, password_hash |-> BcryptHash("password2")])
    /\ refresh_tokens = EmptyTable
    /\ ingredients = EmptyTable
    /\ recipes = EmptyTable
    /\ recipe_ingredients = EmptyTable
    /\ inventory_items = EmptyTable
    /\ shopping_lists = EmptyTable
    /\ shopping_list_items = EmptyTable
    /\ reg = [p \in Procs |-> Idle]
    /\ pending = [p \in Procs |-> Idle]
    /\ resp = NoResp

\* req.user.sub of the requests that pass authRequired: the ids of the users
Subjects == DOMAIN users

\* values of an :id path segment for a table: not a number, zero, the ids in
\* use, and an id that is not in use
PathIds(table) == {NaN, 0, MaxRows + 1} \cup DOMAIN table

\* title values of a body
Titles ==
    {UNDEFINED, NULL, NUMBER, <<>>, <<" ", " ", " ">>, <<"a">>, <<" ", "a", " ">>,
     <<"a", "b">>, <<" ", "c", "d", " ">>}

\* isPublic values of a PATCH body
PublicFlags == {"undefined", "true", "false"}

RIPatchBodies ==
    {RIPatchBody(q, un) : q \in {"undefined", "abc", "0", "2"}, un \in {"undefined", "g"}}

\* custom names of a body
CustomNames == {UNDEFINED, NULL, <<>>, <<" ", "r">>, <<" ", "r", "i", " ">>}

\* bodies of POST /inventory/items: a valid one, and that one with one field
\* replaced
InvBodies ==
    {InvBody(0, <<"r", "i">>, q, "g", "fridge") : q \in {"undefined", "abc", "-1", "0", "1"}}
    \cup {InvBody(0, <<"r", "i">>, "1", un, "fridge") : un \in {"undefined", "null", ""}}
    \cup {InvBody(0, <<"r", "i">>, "1", "g", l) : l \in {"undefined", ""}}
    \cup {InvBody(0, n, "1", "g", "fridge") : n \in CustomNames}
    \cup {InvBody(i, UNDEFINED, "1", "g", "fridge") : i \in {1, MaxRows + 1}}

InvPatchBodies ==
    {InvPatchBody(q, "undefined", n) :
        q \in {"undefined", "abc", "-1", "2"}, n \in {UNDEFINED, NULL, <<" ", "r">>}}
    \cup {InvPatchBody("undefined", "kg", UNDEFINED),
          InvPatchBody("2", "kg", <<" ", "r", "i", " ">>)}

\* a status of 21 characters
LongStatus == [i \in 1..(MaxStatusLength + 1) |-> "x"]

ListBodies ==
    {ListBody(n, UNDEFINED) : n \in {UNDEFINED, NULL, <<" ">>, <<" ", "w", "k">>}}
    \cup {ListBody(n, st) :
            n \in {UNDEFINED, <<" ", "w", "k">>},
            st \in {<<>>, <<" ">>, <<"d", "o", "n", "e">>, LongStatus}}

\* bodies of POST and PATCH of a shopping list item
ItemBodies ==
    {ItemBody(i, UNDEFINED, "undefined", "undefined", Absent) :
        i \in {Absent, 0, 1, MaxRows + 1}}
    \cup {ItemBody(Absent, n, "undefined", "undefined", Absent) :
            n \in {NULL, <<>>, <<" ", "r", "i", " ">>}}
    \cup {ItemBody(MaxRows + 1, UNDEFINED, q, "true", Absent) : q \in {"abc", "2"}}
    \cup {ItemBody(Absent, UNDEFINED, q, "true", f) :
            q \in {"undefined", "abc"}, f \in {Absent, MaxRows + 1}}

BulkBodies ==
    {BulkBody(FALSE, <<>>), BulkBody(TRUE, <<>>)}
    \cup {BulkBody(TRUE, <<BulkItem(i, "true", q)>>) :
            i \in {0, 1, MaxRows + 1}, q \in {"undefined", "abc"}}
    \cup {BulkBody(TRUE, <<BulkItem(1, "true", "2"), BulkItem(j, "undefined", "abc")>>) :
            j \in 1..2}

-----------------------------------------------------------------------------
(* The recipe service: recipes, the catalog and recipe ingredients for two
   users, one multi-statement request in flight at a time.  The properties
   quantify over the ids and bodies above in every state these requests
   reach. *)

RecipeRequests ==
    \/ \E u \in Subjects : RecipeCreate(u, <<"a", "b">>, FALSE)
    \/ \E u \in Subjects, id \in DOMAIN recipes : RecipeGet(u, id)
    \/ \E u \in Subjects, id \in DOMAIN recipes : RecipePatch(u, id, <<" ", "c", "d", " ">>, "undefined")
    \/ \E u \in Subjects, id \in DOMAIN recipes : RecipeDelete(u, id)

RecipeIngredientRequests ==
    \/ \E u \in Subjects, id \in DOMAIN recipes, ri \in DOMAIN recipe_ingredients :
          RecipeIngredientPatch(u, id, ri, RIPatchBody("2", "undefined"))
    \/ \E u \in Subjects, id \in DOMAIN recipes, ri \in DOMAIN recipe_ingredients :
          RecipeIngredientDelete(u, id, ri)

NextRecipes ==
    \/ RecipeRequests
    \/ \E u \in Subjects, id \in DOMAIN recipes, q \in {"abc", "1"} :
          AddIngredientBegin("p1", u, id, AddBody(0, <<" ", "m", "o", " ">>, q, "g"))
    \/ AddIngredientFind("p1")
    \/ AddIngredientCreate("p1")
    \/ AddIngredientInsert("p1")

SpecRecipes == InitTwoUsers /\ [][NextRecipes]_vars

-----------------------------------------------------------------------------
(* The catalog under concurrency: two requests in flight that add an
   ingredient by name *)

NextCatalog ==
    \/ \E u \in Subjects : RecipeCreate(u, <<"a", "b">>, FALSE)
    \/ \E p \in Procs, u \in Subjects : IngredientCreateCheck(p, u, <<"M", "o">>, "kg")
    \/ \E p \in Procs : IngredientCreateInsert(p)
    \/ \E p \in Procs, u \in Subjects, id \in DOMAIN recipes, un \in {"undefined", "", "g"} :
          AddIngredientBegin(p, u, id, AddBody(0, <<" ", "m", "o", " ">>, "1", un))
    \/ \E p \in Procs : AddIngredientFind(p)
    \/ \E p \in Procs : AddIngredientCreate(p)
    \/ \E p \in Procs : AddIngredientInsert(p)

SpecCatalog == InitTwoUsers /\ [][NextCatalog]_vars

-----------------------------------------------------------------------------
(* The whole service for two users *)

\* The requests that drive the whole service are those of the owners of the
\* rows, which produce every content of the tables, and some requests that
\* are refused.  (The properties quantify over the subjects, ids and bodies
\* above in every state these requests reach.)

OwnRecipes(u) == {r \in DOMAIN recipes : recipes[r].user_id = u}

OwnItems(u) == {i \in DOMAIN inventory_items : inventory_items[i].user_id = u}

OwnLists(u) == {l \in DOMAIN shopping_lists : shopping_lists[l].user_id = u}

InventoryRequests ==
    \/ \E u \in Subjects, i \in {0} \cup DOMAIN ingredients :
          InventoryCreate(u, InvBody(i, <<"r", "i">>, "1", "g", "fridge"))
    \/ \E u \in Subjects : \E id \in OwnItems(u) :
          InventoryPatch(u, id, InvPatchBody("2", "undefined", UNDEFINED))
    \/ \E u \in Subjects : \E id \in OwnItems(u) : InventoryDelete(u, id)

ShoppingListRequests ==
    \/ \E u \in Subjects : ShoppingListCreate(u, ListBody(<<" ", "w", "k">>, UNDEFINED))
    \/ \E u \in Subjects : \E id \in OwnLists(u) :
          ShoppingListPatch(u, id, ListBody(UNDEFINED, <<"d", "o", "n", "e">>))
    \/ \E u \in Subjects : \E id \in OwnLists(u) : ShoppingListDelete(u, id)

ItemRequests ==
    \/ \E u \in Subjects : \E id \in OwnLists(u) :
          ItemCreate(u, id, ItemBody(Absent, <<"r", "i">>, "1", "undefined", Absent))
    \/ \E u \in Subjects : \E id \in OwnLists(u) :
       \E it \in ItemsOf(id), i \in {Absent, MaxRows + 1} :
          ItemPatch(u, id, it, ItemBody(i, UNDEFINED, "undefined", "true", Absent))
    \/ \E u \in Subjects : \E id \in OwnLists(u) : \E it \in ItemsOf(id) : ItemDelete(u, id, it)
    \/ \E u \in Subjects : \E id \in OwnLists(u) : \E it \in ItemsOf(id) :
          ItemsBulk(u, id, BulkBody(TRUE, <<BulkItem(it, "true", "undefined")>>))
    \/ \E u \in Subjects : \E id \in OwnLists(u) : ClearChecked(u, id)

\* requests of the multi-statement handlers that fail validation, besides
\* the add of a recipe ingredient (sign-up itself is SpecAuth)
RefusedRequests ==
    \/ RegisterCheck("p1", <<"a", "@">>, "short")
    \/ \E u \in Subjects : IngredientCreateCheck("p1", u, <<"m">>, "kg")

Next ==
    \/ \E u \in Subjects : RecipeCreate(u, <<"a", "b">>, FALSE)
    \/ \E u \in Subjects : \E id \in OwnRecipes(u) : RecipeDelete(u, id)
    \/ \E u \in Subjects : \E id \in OwnRecipes(u), ri \in DOMAIN recipe_ingredients :
          RecipeIngredientPatch(u, id, ri, RIPatchBody("2", "undefined"))
    \/ \E u \in Subjects : \E id \in OwnRecipes(u) : \E ri \in IngredientsOf(id) :
          RecipeIngredientDelete(u, id, ri)
    \/ \E u \in Subjects : \E id \in OwnRecipes(u), q \in {"0", "1"} :
          AddIngredientBegin("p1", u, id, AddBody(0, <<"m", "o">>, q, "undefined"))
    \/ AddIngredientFind("p1")
    \/ AddIngredientCreate("p1")
    \/ AddIngredientInsert("p1")
    \/ InventoryRequests
    \/ ShoppingListRequests
    \/ ItemRequests
    \/ RefusedRequests

Spec == InitTwoUsers /\ [][Next]_vars

-----------------------------------------------------------------------------
(* Properties of the recipe service *)

\* the recipes that belong to another user than a
ForeignRecipes(a) == {r \in DOMAIN recipes : recipes[r].user_id # a}

\* integer ids that no row ever had
UnusedIds == {0, MaxRows + 1}

RecipeOps == {"GET /recipes/:id", "PATCH /recipes/:id", "DELETE /recipes/:id"}

IsNotFound(r) == r.status = 404 /\ r.code = "NOT_FOUND"

\* C1: for every recipe R of user B and every subject A other than B, GET,
\* PATCH and DELETE of /recipes/R by A are answered 404 NOT_FOUND with the
\* same body as for an id that has no row, and no table changes (the recipe
\* row and its recipe ingredients stay as they are).
C1_ForeignRecipeIsNotFound ==
    /\ [](\A a \in Subjects : \A r \in ForeignRecipes(a) : \A m \in UnusedIds :
            /\ LET g == RecipeGetResponse(a, r)
               IN IsNotFound(g) /\ g = RecipeGetResponse(a, m)
            /\ \A t \in Titles, p \in PublicFlags :
                 LET o == RecipePatchOutcome(a, r, t, p)
                 IN /\ IsNotFound(o.resp)
                    /\ o.resp = RecipePatchOutcome(a, m, t, p).resp
                    /\ o.recipes = recipes
            /\ LET d == RecipeDeleteOutcome(a, r)
               IN /\ IsNotFound(d.resp)
                  /\ d.resp = RecipeDeleteOutcome(a, m).resp
                  /\ d.recipes = recipes
                  /\ d.recipe_ingredients = recipe_ingredients
                  /\ d.shopping_list_items = shopping_list_items)
    /\ [][(resp'.op \in RecipeOps /\ resp'.status = 404 /\ resp' # resp)
             => tables' = tables]_vars

\* C1 witness: a DELETE by another user of a recipe that has ingredients was
\* answered 404, and the recipe is still there
C1_Witness ==
    /\ resp.op = "DELETE /recipes/:id"
    /\ resp.status = 404
    /\ resp.id \in DOMAIN recipes
    /\ recipes[resp.id].user_id # resp.sub
    /\ IngredientsOf(resp.id) # {}

-----------------------------------------------------------------------------
(* Properties of the catalog resolver *)

AddOp == "POST /recipes/:id/ingredients"

\* the request of p took its step
Stepped(p) == pending'[p] # pending[p]

\* the row that the INSERT of request r adds to recipe_ingredients
RowOf(r) ==
    [recipe_id |-> r.recipeId, ingredient_id |-> r.ingredientId,
     quantity |-> NumberOf(r.body.quantity), unit |-> r.unit]

\* C8 as stated: a request that adds an ingredient by a name without a catalog
\* row succeeds, adds exactly one ingredients row with that name and exactly
\* one recipe_ingredients row that references it and the recipe - in every
\* interleaving with other requests that add the same name.
C8_NewNameAddsIngredientAndRow ==
    [][\A p \in Procs :
         LET r == pending[p] IN
         /\ (r.pc = "create" /\ Stepped(p)) =>
               /\ pending'[p].pc = "insert"
               /\ pending'[p].created \notin DOMAIN ingredients
               /\ DOMAIN ingredients' = DOMAIN ingredients \cup {pending'[p].created}
               /\ ingredients'[pending'[p].created].name = CleanName(r)
         /\ (r.pc = "insert" /\ r.created # 0 /\ Stepped(p)) =>
               /\ resp'.op = AddOp /\ resp'.status = 201
               /\ recipe_ingredients' =
                     InsertRow(recipe_ingredients, resp'.data.id, RowOf(r))
               /\ r.ingredientId = r.created]_vars

\* C8 witness of the race: two requests have looked up the same name, found
\* no row, and are both about to INSERT it
C8_BothPastFind ==
    /\ pending["p1"].pc = "create"
    /\ pending["p2"].pc = "create"
    /\ CollEq(CleanName(pending["p1"]), CleanName(pending["p2"]))

\* a unit was supplied in the body
Supplied(unit) == unit \notin {"undefined", "null"}

\* C9 as stated: when the name of the request matches a catalog row, no catalog
\* row is created or modified, the new recipe_ingredients row references that
\* row, and its unit is the unit of the request if one was supplied and the
\* default unit of the catalog row otherwise.
C9_MatchReusesRowUnitIfSupplied ==
    [][\A p \in Procs :
         LET r == pending[p]
             n == pending'[p]
         IN
         /\ (r.pc = "find" /\ Stepped(p) /\ IngredientsByName(CleanName(r)) # {}) =>
               /\ ingredients' = ingredients
               /\ n.pc = "insert" /\ n.created = 0
               /\ n.ingredientId \in IngredientsByName(CleanName(r))
               /\ n.unit = IF Supplied(r.body.unit)
                             THEN r.body.unit
                             ELSE ingredients[n.ingredientId].default_unit
         /\ (r.pc = "insert" /\ r.body.ingredientId = 0 /\ r.created = 0 /\ Stepped(p)) =>
               /\ ingredients' = ingredients
               /\ resp'.status = 201 =>
                     recipe_ingredients' =
                        InsertRow(recipe_ingredients, resp'.data.id, RowOf(r))]_vars

\* C9 amended: when the name of the request matches a catalog row (under the
\* collation of the name column), no catalog row is created or modified and
\* the new recipe_ingredients row references that row; its unit is the unit of
\* the request if that is a non-empty string, otherwise the default unit of the
\* catalog row if that is a non-empty string, otherwise the unit of the
\* request (empty or null).
C9_MatchReusesRowUnitIfNonEmpty ==
    [][\A p \in Procs :
         LET r == pending[p]
             n == pending'[p]
         IN
         /\ (r.pc = "find" /\ Stepped(p) /\ IngredientsByName(CleanName(r)) # {}) =>
               /\ ingredients' = ingredients
               /\ n.pc = "insert" /\ n.created = 0
               /\ n.ingredientId \in IngredientsByName(CleanName(r))
               /\ LET defaultUnit == ingredients[n.ingredientId].default_unit
                  IN n.unit = IF r.body.unit \notin {"undefined", "null", ""}
                                THEN r.body.unit
                              ELSE IF defaultUnit \notin {"null", ""}
                                THEN defaultUnit
                              ELSE IF r.body.unit = "" THEN "" ELSE "null"
         /\ (r.pc = "insert" /\ r.body.ingredientId = 0 /\ r.created = 0 /\ Stepped(p)) =>
               /\ ingredients' = ingredients
               /\ resp'.status = 201 =>
                     recipe_ingredients' =
                        InsertRow(recipe_ingredients, resp'.data.id, RowOf(r))]_vars

\* C9 witness: a request without a unit was resolved to the catalog row made
\* by POST /ingredients, and its row carries the default unit of that row
C9_Witness ==
    /\ resp.op = AddOp
    /\ resp.status = 201
    /\ LET row == recipe_ingredients[resp.data.id]
       IN /\ row.unit = "kg"
          /\ ingredients[row.ingredient_id].default_unit = "kg"
          /\ ingredients[row.ingredient_id].name = <<"M", "o">>

-----------------------------------------------------------------------------
(* Properties of the whole service *)

\* the inventory items that belong to another user than a
ForeignItems(a) == {i \in DOMAIN inventory_items : inventory_items[i].user_id # a}

\* the recipe ingredients of the recipes of another user than a
ForeignRecipeIngredients(a) ==
    {ri \in DOMAIN recipe_ingredients :
        recipe_ingredients[ri].recipe_id \in ForeignRecipes(a)}

\* a 400 answer is the same answer for both requests
SameUnlessNotFound(r1, r2) == r1 = r2 /\ (IsNotFound(r1) \/ r1.status = 400)

Unwritten(o, name, table) == o.resp.status = 400 => o[name] = table

\* C10: a request answered 400 VALIDATION_ERROR leaves every table unchanged:
\* (1) for every handler of one statement, subject, id and body, the outcome
\* with status 400 has the tables as they are; (2) a step that answers 400
\* changes no table and no AUTO_INCREMENT counter; (3) a request that is
\* suspended after its validation is never answered 400.
C10_ValidationErrorWritesNothing ==
    /\ [](\A u \in Subjects :
            /\ \A t \in Titles :
                 /\ Unwritten(RecipeCreateOutcome(u, t, FALSE), "recipes", recipes)
                 /\ \A id \in PathIds(recipes), p \in PublicFlags :
                      Unwritten(RecipePatchOutcome(u, id, t, p), "recipes", recipes)
            /\ \A id \in PathIds(recipes) :
                 /\ LET d == RecipeDeleteOutcome(u, id)
                    IN d.resp.status = 400 =>
                          /\ d.recipes = recipes
                          /\ d.recipe_ingredients = recipe_ingredients
                          /\ d.shopping_list_items = shopping_list_items
                 /\ \A ri \in PathIds(recipe_ingredients) :
                      /\ \A b \in RIPatchBodies :
                           Unwritten(RecipeIngredientPatchOutcome(u, id, ri, b),
                                     "recipe_ingredients", recipe_ingredients)
                      /\ Unwritten(RecipeIngredientDeleteOutcome(u, id, ri),
                                   "recipe_ingredients", recipe_ingredients)
            /\ \A b \in InvBodies :
                 Unwritten(InventoryCreateOutcome(u, b), "inventory_items", inventory_items)
            /\ \A id \in PathIds(inventory_items) :
                 /\ \A b \in InvPatchBodies :
                      Unwritten(InventoryPatchOutcome(u, id, b),
                                "inventory_items", inventory_items)
                 /\ Unwritten(InventoryDeleteOutcome(u, id),
                              "inventory_items", inventory_items)
            /\ \A b \in ListBodies :
                 /\ Unwritten(ShoppingListCreateOutcome(u, b),
                              "shopping_lists", shopping_lists)
                 /\ \A id \in PathIds(shopping_lists) :
                      Unwritten(ShoppingListPatchOutcome(u, id, b),
                                "shopping_lists", shopping_lists)
            /\ \A id \in PathIds(shopping_lists) :
                 /\ LET d == ShoppingListDeleteOutcome(u, id)
                    IN d.resp.status = 400 =>
                          /\ d.shopping_lists = shopping_lists
                          /\ d.shopping_list_items = shopping_list_items
                 /\ \A b \in ItemBodies :
                      /\ Unwritten(ItemCreateOutcome(u, id, b),
                                   "shopping_list_items", shopping_list_items)
                      /\ \A it \in PathIds(shopping_list_items) :
                           Unwritten(ItemPatchOutcome(u, id, it, b),
                                     "shopping_list_items", shopping_list_items)
                 /\ \A it \in PathIds(shopping_list_items) :
                      Unwritten(ItemDeleteOutcome(u, id, it),
                                "shopping_list_items", shopping_list_items)
                 /\ \A b \in BulkBodies :
                      Unwritten(ItemsBulkOutcome(u, id, b),
                                "shopping_list_items", shopping_list_items)
                 /\ Unwritten(ClearCheckedOutcome(u, id),
                              "shopping_list_items", shopping_list_items))
    /\ [][(resp'.status = 400 /\ resp' # resp)
             => (tables' = tables /\ autoinc' = autoinc)]_vars
    /\ [][\A p \in Procs :
            \/ pending[p].pc # "idle" /\ pending'[p] # pending[p]
            \/ reg[p].pc # "idle" /\ reg'[p] # reg[p]
            => (resp'.status = 400 => resp' = resp)]_vars

\* C10 witness: a PATCH of an item of the subject's own list, which has items,
\* was answered 400 because the ingredientId has no row
C10_Witness ==
    /\ resp.op = "PATCH /shopping-lists/:id/items/:itemId"
    /\ resp.status = 400
    /\ resp.message = "ingredientId not found"
    /\ ensureShoppingListOwned(resp.id, resp.sub)
    /\ ItemsOf(resp.id) # {}

-----------------------------------------------------------------------------
(* The pantry and the shopping lists of two users: inventory items, lists
   and their items, with the quantities a client can send *)

\* the bulk bodies that the shopping requests send for item it: the item
\* alone, the item and an id without a row, the item twice, and the item with
\* an entry that has no fields
ShoppingBulkBodies(it) ==
    {BulkBody(TRUE, <<BulkItem(it, "true", "undefined")>>),
     BulkBody(TRUE, <<BulkItem(it, "undefined", "0"), BulkItem(MaxRows + 1, "true", "2")>>),
     BulkBody(TRUE, <<BulkItem(it, "false", "undefined"), BulkItem(it, "undefined", "undefined")>>)}

NextShopping ==
    \/ \E u \in Subjects : ShoppingListCreate(u, ListBody(<<" ", "w", "k">>, UNDEFINED))
    \/ \E u \in Subjects, q \in {"-1", "0"} :
          InventoryCreate(u, InvBody(0, <<"r", "i">>, q, "g", "fridge"))
    \/ \E u \in Subjects : \E id \in OwnItems(u) : \E q \in {"-1", "2"} :
          InventoryPatch(u, id, InvPatchBody(q, "undefined", UNDEFINED))
    \/ \E u \in Subjects : \E id \in OwnLists(u) : \E q \in {"undefined", "-1", "2"} :
          ItemCreate(u, id, ItemBody(Absent, <<"r", "i">>, q, "undefined", Absent))
    \/ \E u \in Subjects : \E id \in OwnLists(u) : \E it \in ItemsOf(id) :
          ItemPatch(u, id, it, ItemBody(Absent, UNDEFINED, "null", "true", Absent))
    \/ \E u \in Subjects : \E id \in OwnLists(u) :
       \E it \in DOMAIN shopping_list_items : \E b \in ShoppingBulkBodies(it) :
          ItemsBulk(u, id, b)
    \/ \E u \in Subjects, id \in DOMAIN shopping_lists : ClearChecked(u, id)

SpecShopping == InitTwoUsers /\ [][NextShopping]_vars

\* the stored quantity of a shopping list item is NULL or a number >= 0
ItemQuantityInRange(quantity) ==
    quantity = "null" \/ (IsFinite(NumberOf(quantity)) /\ NumberOf(quantity) >= 0)

\* C11: every endpoint that accepts a quantity answers 400 VALIDATION_ERROR
\* to a quantity that is not a finite number or is out of range, and stores
\* none: the quantity of a recipe ingredient is > 0, that of an inventory
\* item is >= 0, and no stored quantity of a shopping list item is
\* non-numeric or negative.
C11_QuantitiesAreValidated ==
    /\ \A ri \in DOMAIN recipe_ingredients : recipe_ingredients[ri].quantity > 0
    /\ \A i \in DOMAIN inventory_items : inventory_items[i].quantity >= 0
    /\ \A it \in DOMAIN shopping_list_items :
          ItemQuantityInRange(shopping_list_items[it].quantity)
    /\ \A u \in Subjects : \A q \in {"abc", "-1"} :
          /\ InventoryCreateOutcome(u, InvBody(0, <<"r", "i">>, q, "g", "fridge")).resp.status = 400
          /\ \A id \in OwnItems(u) :
                InventoryPatchOutcome(u, id, InvPatchBody(q, "undefined", UNDEFINED)).resp.status = 400
          /\ \A l \in OwnLists(u) :
                /\ ItemCreateOutcome(u, l, ItemBody(Absent, <<"r", "i">>, q, "undefined",
                                                    Absent)).resp.status = 400
                /\ \A it \in ItemsOf(l) :
                      /\ ItemPatchOutcome(u, l, it, ItemBody(Absent, UNDEFINED, q, "undefined",
                                                             Absent)).resp.status = 400
                      /\ ItemsBulkOutcome(u, l, BulkBody(TRUE, <<BulkItem(it, "undefined", q)>>)
                                         ).resp.status = 400

\* C11 witness: a shopping list item was created with the quantity -1
C11_NegativeQuantityStored ==
    /\ resp.op = "POST /shopping-lists/:id/items"
    /\ resp.status = 201
    /\ \E it \in DOMAIN shopping_list_items : shopping_list_items[it].quantity = "-1"

\* elements of items[]: ids that parse to null, ids of items, an id without a
\* row; a flag or none; a quantity or none
BulkItems ==
    {BulkItem(i, c, q) :
        i \in {0, MaxRows + 1} \cup DOMAIN shopping_list_items,
        c \in {"undefined", "true", "false"},
        q \in {"undefined", "2"}}

\* items[] of one or two elements
BulkItemLists == {<<a>> : a \in BulkItems} \cup {<<a, b>> : a, b \in BulkItems}

\* the positions of items[] that name an item of list l and carry a field
Applied(items, l) ==
    {k \in 1..Len(items) :
        /\ items[k].id \in ItemsOf(l)
        /\ (items[k].isChecked # "undefined" \/ items[k].quantity # "undefined")}

\* C12: for an owned list the bulk update answers 200 with updatedCount equal
\* to the number of elements applied, one affected row each: elements whose
\* id is no item of the list (no row, or a row of another list) and elements
\* without isChecked and quantity are skipped without error; every other
\* element sets its fields on its item, and no other row changes.
C12_BulkCountsAppliedEntries ==
    \A u \in Subjects : \A l \in OwnLists(u) : \A items \in BulkItemLists :
        LET o == ItemsBulkOutcome(u, l, BulkBody(TRUE, items))
            applied == Applied(items, l)
            t == o.shopping_list_items
        IN
        /\ o.resp.status = 200
        /\ o.resp.data = [updatedCount |-> Cardinality(applied)]
        /\ DOMAIN t = DOMAIN shopping_list_items
        /\ \A i \in DOMAIN t :
              LET ks == {k \in applied : items[k].id = i} IN
              /\ ks = {} => t[i] = shopping_list_items[i]
              /\ \A k \in ks :
                    (\A j \in ks : j <= k) =>
                       /\ items[k].isChecked # "undefined"
                             => t[i].is_checked = (items[k].isChecked = "true")
                       /\ items[k].quantity # "undefined"
                             => t[i].quantity = items[k].quantity
                       /\ t[i].shopping_list_id = l
                       /\ t[i].custom_name = shopping_list_items[i].custom_name

\* C12 witness: a bulk update of an item of the list and of an id without a
\* row was answered updatedCount 1, and the item has the new quantity
C12_Witness ==
    /\ resp.op = "PATCH /shopping-lists/:id/items:bulk"
    /\ resp.status = 200
    /\ resp.data = [updatedCount |-> 1]
    /\ \E it \in ItemsOf(resp.id) : shopping_list_items[it].quantity = "0"

\* the checked items of a list
CheckedOf(l) == {i \in ItemsOf(l) : shopping_list_items[i].is_checked}

\* C13: clearChecked on an owned list deletes exactly the checked items of
\* that list and answers 200 with their number as deletedCount; the
\* unchecked items and the items of other lists stay as they are; and right
\* after a clearChecked of a list, a second one answers 200 with
\* deletedCount 0 and changes nothing.
C13_ClearCheckedDeletesChecked ==
    /\ \A u \in Subjects : \A l \in OwnLists(u) :
          LET o == ClearCheckedOutcome(u, l)
              t == o.shopping_list_items
          IN
          /\ o.resp.status = 200
          /\ o.resp.data = [deletedCount |-> Cardinality(CheckedOf(l))]
          /\ DOMAIN t = DOMAIN shopping_list_items \ CheckedOf(l)
          /\ \A i \in DOMAIN t : t[i] = shopping_list_items[i]
    /\ (resp.op = "POST /shopping-lists/:id/items:clearChecked" /\ resp.status = 200)
          => LET again == ClearCheckedOutcome(resp.sub, resp.id) IN
             /\ again.resp.status = 200
             /\ again.resp.data = [deletedCount |-> 0]
             /\ again.shopping_list_items = shopping_list_items

\* C13 witness: a clearChecked deleted one item of a list and left another
C13_Witness ==
    /\ resp.op = "POST /shopping-lists/:id/items:clearChecked"
    /\ resp.status = 200
    /\ resp.data = [deletedCount |-> 1]
    /\ ItemsOf(resp.id) # {}

-----------------------------------------------------------------------------
(* Reads: the GET routes.  A list request is one without page and pageSize,
   whose page of 20 (50 for the items of a shopping list) holds every row of
   the model; items is the set of the rows returned where the order is not
   modelled, and their sequence where it is. *)

\* values of a numeric query parameter: absent, empty, and texts
QueryValues == {"undefined", "", "0", "-5", "1", "2", "7", "1.5", "7abc", "365", "400", "abc"}

\* parseInt(text, 10)
ParseInt(text) ==
    CASE text = "0" -> 0
      [] text = "-5" -> 0 - 5
      [] text = "1" -> 1
      [] text = "2" -> 2
      [] text = "7" -> 7
      [] text = "1.5" -> 1
      [] text = "7abc" -> 7
      [] text = "20" -> 20
      [] text = "50" -> 50
      [] text = "365" -> 365
      [] text = "400" -> 400
      [] OTHER -> NaN

\* Math.max(a, b) and Math.min(a, b): NaN if an argument is NaN
MathMax(a, b) == IF a = NaN \/ b = NaN THEN NaN ELSE IF a >= b THEN a ELSE b

MathMin(a, b) == IF a = NaN \/ b = NaN THEN NaN ELSE IF a <= b THEN a ELSE b

\* req.query.x || fallback
QueryOr(text, fallback) == IF text \in {"undefined", ""} THEN fallback ELSE text

\* the position of a character in the collation's order
Rank(c) ==
    LET alphabet == <<" ", "@", "a", "b", "c", "d", "e", "i", "k", "m", "o", "r", "t", "v", "w">>
        l == ToLowerChar(c)
    IN IF \E k \in 1..Len(alphabet) : alphabet[k] = l
         THEN CHOOSE k \in 1..Len(alphabet) : alphabet[k] = l
         ELSE Len(alphabet) + 1

\* a <= b in the order of the collation; NULL sorts first
RECURSIVE TextLeq(_, _)
TextLeq(a, b) ==
    IF a = NULL THEN TRUE
    ELSE IF b = NULL THEN FALSE
    ELSE IF a = <<>> THEN TRUE
    ELSE IF b = <<>> THEN FALSE
    ELSE IF Rank(Head(a)) # Rank(Head(b)) THEN Rank(Head(a)) < Rank(Head(b))
    ELSE TextLeq(Tail(a), Tail(b))

\* the sequence of the ids of S in the order Before (a total preorder), rows
\* that the order does not tell apart in the order of their ids
Sorted(S, Before(_, _)) ==
    CHOOSE seq \in [1..Cardinality(S) -> S] :
        /\ \A i, j \in 1..Cardinality(S) : i # j => seq[i] # seq[j]
        /\ \A i, j \in 1..Cardinality(S) :
              i < j => /\ Before(seq[i], seq[j])
                       /\ (Before(seq[j], seq[i]) => seq[i] < seq[j])

\* (mutant) the public recipes of other users are listed too
RecipesListWithPublic(u) ==
    LET seen == {r \in DOMAIN recipes : recipes[r].user_id = u \/ recipes[r].is_public} IN
    Ok("GET /recipes", 200,
       [items |-> {[id |-> r, title |-> recipes[r].title] : r \in seen},
        page |-> 1, pageSize |-> 20, total |-> Cardinality(seen)])

\* GET /recipes
RecipesListResponse(u) ==
    LET own == {r \in DOMAIN recipes : recipes[r].user_id = u} IN
    Ok("GET /recipes", 200,
       [items |-> {[id |-> r, title |-> recipes[r].title] : r \in own},
        page |-> 1, pageSize |-> 20, total |-> Cardinality(own)])

RecipesList(u) ==
    /\ resp' = For(RecipesListResponse(u), u, 0)
    /\ UNCHANGED <<env, autoinc, tables, reg, pending>>

\* GET /recipes/:id/ingredients
RecipeIngredientsListResponse(u, id) ==
    LET op == "GET /recipes/:id/ingredients" IN
    IF ~IsIntegerId(id)
      THEN Invalid(op, "Invalid recipe id")
    ELSE IF ~assertRecipeOwnership(id, u)
      THEN NotFound(op, "Recipe not found")
    ELSE Ok(op, 200,
            [items |-> {[id |-> ri, recipe_id |-> recipe_ingredients[ri].recipe_id,
                         ingredient_id |-> recipe_ingredients[ri].ingredient_id] :
                          ri \in {r \in IngredientsOf(id) :
                                    recipe_ingredients[r].ingredient_id \in DOMAIN ingredients}}])

RecipeIngredientsList(u, id) ==
    /\ resp' = For(RecipeIngredientsListResponse(u, id), u, id)
    /\ UNCHANGED <<env, autoinc, tables, reg, pending>>

\* i.name of LEFT JOIN ingredients i ON i.id = ii.ingredient_id
IngredientName(ingredientId) ==
    IF ingredientId \in DOMAIN ingredients THEN ingredients[ingredientId].name ELSE NULL

\* COALESCE(i.name, ii.custom_name)
DisplayName(i) ==
    IF IngredientName(inventory_items[i].ingredient_id) # NULL
      THEN IngredientName(inventory_items[i].ingredient_id)
      ELSE inventory_items[i].custom_name

\* ii.min_quantity IS NOT NULL AND ii.quantity <= ii.min_quantity
LowStock(i) ==
    /\ inventory_items[i].min_quantity # NullDecimal
    /\ inventory_items[i].quantity <= inventory_items[i].min_quantity

\* a row of inventory_items as the reads return it
InventoryItem(i) ==
    [id |-> i, user_id |-> inventory_items[i].user_id,
     ingredient_name |-> IngredientName(inventory_items[i].ingredient_id),
     custom_name |-> inventory_items[i].custom_name,
     quantity |-> inventory_items[i].quantity,
     expires_at |-> inventory_items[i].expires_at,
     min_quantity |-> inventory_items[i].min_quantity]

\* (mutant) lowStockOnly compares with >=
InventoryListLowStockReversed(u, lowStockOnly) ==
    LET found == {i \in DOMAIN inventory_items :
                    /\ inventory_items[i].user_id = u
                    /\ lowStockOnly =>
                          /\ inventory_items[i].min_quantity # NullDecimal
                          /\ inventory_items[i].quantity >= inventory_items[i].min_quantity}
    IN Ok("GET /inventory/items", 200,
          [items |-> {InventoryItem(i) : i \in found},
           page |-> 1, pageSize |-> 20, total |-> Cardinality(found)])

\* GET /inventory/items, with lowStockOnly=true or without it
InventoryListResponse(u, lowStockOnly) ==
    LET found == {i \in DOMAIN inventory_items :
                    /\ inventory_items[i].user_id = u
                    /\ lowStockOnly => LowStock(i)}
    IN Ok("GET /inventory/items", 200,
          [items |-> {InventoryItem(i) : i \in found},
           page |-> 1, pageSize |-> 20, total |-> Cardinality(found)])

InventoryList(u, lowStockOnly) ==
    /\ resp' = For(InventoryListResponse(u, lowStockOnly), u, 0)
    /\ UNCHANGED <<env, autoinc, tables, reg, pending>>

\* GET /inventory/items/:id
InventoryGetResponse(u, id) ==
    LET op == "GET /inventory/items/:id" IN
    IF ~IsIntegerId(id)
      THEN Invalid(op, "Invalid id")
    ELSE IF ~(id \in DOMAIN inventory_items /\ inventory_items[id].user_id = u)
      THEN NotFound(op, "Inventory item not found")
    ELSE Ok(op, 200, InventoryItem(id))

InventoryGet(u, id) ==
    /\ resp' = For(InventoryGetResponse(u, id), u, id)
    /\ UNCHANGED <<env, autoinc, tables, reg, pending>>

\* GET /inventory/low-stock (items in the order of their display names)
LowStockResponse(u) ==
    LET found == {i \in DOMAIN inventory_items :
                    inventory_items[i].user_id = u /\ LowStock(i)}
        before(i, j) == TextLeq(DisplayName(i), DisplayName(j))
        seq == Sorted(found, before)
    IN Ok("GET /inventory/low-stock", 200,
          [items |-> [k \in 1..Len(seq) |->
                        [id |-> seq[k],
                         ingredient_name |-> IngredientName(inventory_items[seq[k]].ingredient_id),
                         custom_name |-> inventory_items[seq[k]].custom_name,
                         quantity |-> inventory_items[seq[k]].quantity,
                         min_quantity |-> inventory_items[seq[k]].min_quantity]]])

LowStockList(u) ==
    /\ resp' = For(LowStockResponse(u), u, 0)
    /\ UNCHANGED <<env, autoinc, tables, reg, pending>>

\* CURDATE(): the day of the request
Today == 10

\* Math.min(365, Math.max(1, parseInt(req.query.days || "7", 10)))
DaysOf(days) == MathMin(365, MathMax(1, ParseInt(QueryOr(days, "7"))))

\* GET /inventory/expiring?days=  (a days that is NaN goes into the
\* statement as the text NaN, which the store rejects)
ExpiringResponse(u, days) ==
    LET op == "GET /inventory/expiring"
        n == DaysOf(days)
        found == {i \in DOMAIN inventory_items :
                    /\ inventory_items[i].user_id = u
                    /\ inventory_items[i].expires_at # NullDate
                    /\ inventory_items[i].expires_at <= Today + n}
        before(i, j) ==
            \/ inventory_items[i].expires_at < inventory_items[j].expires_at
            \/ /\ inventory_items[i].expires_at = inventory_items[j].expires_at
               /\ TextLeq(DisplayName(i), DisplayName(j))
        seq == Sorted(found, before)
    IN
    IF n = NaN
      THEN InternalError(op, "Unknown column 'NaN' in 'where clause'")
      ELSE Ok(op, 200,
              [days |-> n,
               items |-> [k \in 1..Len(seq) |->
                            [id |-> seq[k],
                             ingredient_name |-> IngredientName(inventory_items[seq[k]].ingredient_id),
                             custom_name |-> inventory_items[seq[k]].custom_name,
                             quantity |-> inventory_items[seq[k]].quantity,
                             expires_at |-> inventory_items[seq[k]].expires_at]]])

Expiring(u, days) ==
    /\ resp' = For(ExpiringResponse(u, days), u, 0)
    /\ UNCHANGED <<env, autoinc, tables, reg, pending>>

\* a row of shopping_lists as the reads return it
ShoppingList(l) ==
    [id |-> l, user_id |-> shopping_lists[l].user_id, name |-> shopping_lists[l].name,
     status |-> shopping_lists[l].status]

\* GET /shopping-lists
ShoppingListsListResponse(u) ==
    LET own == {l \in DOMAIN shopping_lists : shopping_lists[l].user_id = u} IN
    Ok("GET /shopping-lists", 200,
       [items |-> {ShoppingList(l) : l \in own},
        page |-> 1, pageSize |-> 20, total |-> Cardinality(own)])

ShoppingListsList(u) ==
    /\ resp' = For(ShoppingListsListResponse(u), u, 0)
    /\ UNCHANGED <<env, autoinc, tables, reg, pending>>

\* GET /shopping-lists/:id
ShoppingListGetResponse(u, id) ==
    LET op == "GET /shopping-lists/:id" IN
    IF ParseId(id) = 0
      THEN Invalid(op, "Invalid id")
    ELSE IF ~ensureShoppingListOwned(id, u)
      THEN NotFound(op, "Shopping list not found")
    ELSE Ok(op, 200, ShoppingList(id))

ShoppingListGet(u, id) ==
    /\ resp' = For(ShoppingListGetResponse(u, id), u, id)
    /\ UNCHANGED <<env, autoinc, tables, reg, pending>>

\* GET /shopping-lists/:id/items (ORDER BY is_checked ASC, id ASC)
ItemsListResponse(u, listId) ==
    LET op == "GET /shopping-lists/:id/items"
        before(i, j) == shopping_list_items[i].is_checked => shopping_list_items[j].is_checked
        seq == Sorted(ItemsOf(listId), before)
    IN
    IF ParseId(listId) = 0
      THEN Invalid(op, "Invalid list id")
    ELSE IF ~ensureShoppingListOwned(listId, u)
      THEN NotFound(op, "Shopping list not found")
    ELSE Ok(op, 200,
            [items |-> [k \in 1..Len(seq) |->
                          [id |-> seq[k],
                           shopping_list_id |-> shopping_list_items[seq[k]].shopping_list_id,
                           custom_name |-> shopping_list_items[seq[k]].custom_name,
                           is_checked |-> shopping_list_items[seq[k]].is_checked]],
             page |-> 1, pageSize |-> 50, total |-> Cardinality(ItemsOf(listId))])

ItemsList(u, listId) ==
    /\ resp' = For(ItemsListResponse(u, listId), u, listId)
    /\ UNCHANGED <<env, autoinc, tables, reg, pending>>

-----------------------------------------------------------------------------
(* The reads of two users over the rows that they create *)

NextReads ==
    \/ \E u \in Subjects, isPublic \in BOOLEAN : RecipeCreate(u, <<"a", "b">>, isPublic)
    \/ \E u \in Subjects : \E id \in OwnRecipes(u) :
          AddIngredientBegin("p1", u, id, AddBody(0, <<"m", "o">>, "1", "g"))
    \/ AddIngredientFind("p1")
    \/ AddIngredientCreate("p1")
    \/ AddIngredientInsert("p1")
    \/ \E u \in Subjects :
          InventoryCreate(u, Stocked(InvBody(0, <<"r", "i">>, "1", "g", "fridge"),
                                     "2", Today + 1))
    \/ \E u \in Subjects : ShoppingListCreate(u, ListBody(<<" ", "w", "k">>, UNDEFINED))
    \/ \E u \in Subjects : \E id \in OwnLists(u) :
          ItemCreate(u, id, ItemBody(Absent, <<"r", "i">>, "1", "undefined", Absent))
    \/ \E u \in Subjects : RecipesList(u)
    \/ \E u \in Subjects, id \in DOMAIN recipes : RecipeGet(u, id)
    \/ \E u \in Subjects, id \in DOMAIN recipes : RecipeIngredientsList(u, id)
    \/ \E u \in Subjects, lowStockOnly \in BOOLEAN : InventoryList(u, lowStockOnly)
    \/ \E u \in Subjects, id \in DOMAIN inventory_items : InventoryGet(u, id)
    \/ \E u \in Subjects : LowStockList(u)
    \/ \E u \in Subjects : Expiring(u, "undefined")
    \/ \E u \in Subjects : ShoppingListsList(u)
    \/ \E u \in Subjects, id \in DOMAIN shopping_lists : ShoppingListGet(u, id)
    \/ \E u \in Subjects, id \in DOMAIN shopping_lists : ItemsList(u, id)

SpecReads == InitTwoUsers /\ [][NextReads]_vars

\* the elements of a sequence
Range(seq) == {seq[k] : k \in 1..Len(seq)}

\* C14: whatever the users have done, every read by subject s - the lists
\* and the reads by id of recipes, recipe ingredients, inventory items,
\* shopping lists and their items - returns only rows of s, or rows of a
\* recipe or a list of s; a read by id of a row of another user returns no
\* row, also when that row is a public recipe.
C14_ReadsReturnOwnRows ==
    \A s \in Subjects :
        /\ \A x \in RecipesListResponse(s).data.items : recipes[x.id].user_id = s
        /\ \A id \in PathIds(recipes) :
              /\ RecipeGetResponse(s, id).status = 200
                    => /\ recipes[id].user_id = s
                       /\ RecipeGetResponse(s, id).data.recipe = recipes[id]
                       /\ \A x \in RecipeGetResponse(s, id).data.ingredients :
                             x[2].recipe_id = id
              /\ RecipeIngredientsListResponse(s, id).status = 200
                    => /\ recipes[id].user_id = s
                       /\ \A x \in RecipeIngredientsListResponse(s, id).data.items :
                             x.recipe_id = id
              /\ (id \in DOMAIN recipes /\ recipes[id].user_id # s)
                    => /\ RecipeGetResponse(s, id).status = 404
                       /\ RecipeIngredientsListResponse(s, id).status = 404
        /\ \A lowStockOnly \in BOOLEAN :
              \A x \in InventoryListResponse(s, lowStockOnly).data.items :
                 inventory_items[x.id].user_id = s
        /\ \A id \in PathIds(inventory_items) :
              InventoryGetResponse(s, id).status = 200
                 => /\ inventory_items[id].user_id = s
                    /\ InventoryGetResponse(s, id).data.id = id
        /\ \A x \in Range(LowStockResponse(s).data.items) : inventory_items[x.id].user_id = s
        /\ \A days \in {"undefined", "400"} :
              \A x \in Range(ExpiringResponse(s, days).data.items) :
                 inventory_items[x.id].user_id = s
        /\ \A x \in ShoppingListsListResponse(s).data.items : shopping_lists[x.id].user_id = s
        /\ \A id \in PathIds(shopping_lists) :
              /\ ShoppingListGetResponse(s, id).status = 200
                    => /\ shopping_lists[id].user_id = s
                       /\ ShoppingListGetResponse(s, id).data.id = id
              /\ ItemsListResponse(s, id).status = 200
                    => /\ shopping_lists[id].user_id = s
                       /\ \A x \in Range(ItemsListResponse(s, id).data.items) :
                             shopping_list_items[x.id].shopping_list_id = id

\* C14 witness: the list of recipes of a subject was answered with a recipe
\* while another user has a public recipe
C14_Witness ==
    /\ resp.op = "GET /recipes"
    /\ resp.status = 200
    /\ resp.data.items # {}
    /\ \E r \in DOMAIN recipes : recipes[r].user_id # resp.sub /\ recipes[r].is_public

-----------------------------------------------------------------------------
(* The stock of two users: inventory items with and without a minimum *)

NextStock ==
    \/ \E u \in Subjects, m \in {"undefined", "0", "1", "2"} :
          InventoryCreate(u, Stocked(InvBody(0, <<"r", "i">>, "1", "g", "fridge"), m, NullDate))
    \/ \E u \in Subjects : \E id \in OwnItems(u) :
          InventoryPatch(u, id, InvPatchBody("2", "undefined", UNDEFINED))
    \/ \E u \in Subjects : \E id \in OwnItems(u) : InventoryDelete(u, id)
    \/ \E u \in Subjects, lowStockOnly \in BOOLEAN : InventoryList(u, lowStockOnly)
    \/ \E u \in Subjects : LowStockList(u)

SpecStock == InitTwoUsers /\ [][NextStock]_vars

\* the items of subject s that have a minimum and are at or below it
AtOrBelowMinimum(s) ==
    {i \in DOMAIN inventory_items :
        /\ inventory_items[i].user_id = s
        /\ inventory_items[i].min_quantity # NullDecimal
        /\ inventory_items[i].quantity <= inventory_items[i].min_quantity}

\* C15: GET /inventory/items?lowStockOnly=true and GET /inventory/low-stock
\* return only items of the caller whose min_quantity is not NULL and whose
\* quantity is <= min_quantity - an item without a minimum never appears -
\* and low-stock returns every such item of the caller.
C15_LowStockIsAtOrBelowMinimum ==
    \A s \in Subjects :
        /\ {x.id : x \in InventoryListResponse(s, TRUE).data.items} \subseteq AtOrBelowMinimum(s)
        /\ {x.id : x \in Range(LowStockResponse(s).data.items)} = AtOrBelowMinimum(s)
        /\ \A x \in InventoryListResponse(s, TRUE).data.items
                       \cup Range(LowStockResponse(s).data.items) :
              /\ x.min_quantity # NullDecimal
              /\ x.quantity <= x.min_quantity
        /\ Len(LowStockResponse(s).data.items) = Cardinality(AtOrBelowMinimum(s))

\* C15 witness: low-stock was answered with an item while the caller has an
\* item without a minimum and an item above its minimum
C15_Witness ==
    /\ resp.op = "GET /inventory/low-stock"
    /\ resp.status = 200
    /\ Len(resp.data.items) = 1
    /\ \E i, j \in DOMAIN inventory_items :
          /\ inventory_items[i].user_id = resp.sub
          /\ inventory_items[i].min_quantity = NullDecimal
          /\ inventory_items[j].user_id = resp.sub
          /\ inventory_items[j].min_quantity # NullDecimal
          /\ inventory_items[j].quantity > inventory_items[j].min_quantity

-----------------------------------------------------------------------------
(* The expiry dates of the inventory of two users *)

\* expiry dates of a body: none, tomorrow, in 7 and 8 days, in 366 days
ExpiryDates == {NullDate, Today + 1, Today + 7, Today + 8, Today + 366}

NextExpiring ==
    \/ \E u \in Subjects, n \in {<<"r", "i">>, <<"m", "o">>}, e \in ExpiryDates :
          InventoryCreate(u, Stocked(InvBody(0, n, "1", "g", "fridge"), "undefined", e))
    \/ \E u \in Subjects, days \in {"undefined", "400", "abc"} : Expiring(u, days)

SpecExpiring == InitTwoUsers /\ [][NextExpiring]_vars

\* the days query value clamped into 1..365, 7 when it is absent or no number
Clamped(days) ==
    LET n == IF ParseInt(days) = NaN THEN 7 ELSE ParseInt(days)
    IN IF n < 1 THEN 1 ELSE IF n > 365 THEN 365 ELSE n

\* C16: for every value of the days parameter - absent, empty, zero,
\* negative, above 365, not a number - GET /inventory/expiring answers 200,
\* the N it reports is an integer in 1..365 (the value clamped, 7 when
\* absent), and items are exactly the caller's items with a non-NULL
\* expires_at <= today + N, in ascending order of expires_at.
C16_ExpiringWithinClampedDays ==
    \A s \in Subjects : \A days \in QueryValues :
        LET r == ExpiringResponse(s, days) IN
        /\ r.status = 200
        /\ r.data.days \in 1..365
        /\ r.data.days = Clamped(days)
        /\ {x.id : x \in Range(r.data.items)}
              = {i \in DOMAIN inventory_items :
                    /\ inventory_items[i].user_id = s
                    /\ inventory_items[i].expires_at # NullDate
                    /\ inventory_items[i].expires_at <= Today + r.data.days}
        /\ \A j, k \in 1..Len(r.data.items) :
              j < k => /\ r.data.items[j].expires_at <= r.data.items[k].expires_at
                       /\ r.data.items[j].id # r.data.items[k].id

\* C16 witness: a request with a days value that is no number was answered
\* 500 while the caller has an item that expires tomorrow
C16_NonNumericDaysFails ==
    /\ resp.op = "GET /inventory/expiring"
    /\ resp.status = 500
    /\ \E i \in DOMAIN inventory_items :
          /\ inventory_items[i].user_id = resp.sub
          /\ inventory_items[i].expires_at = Today + 1

-----------------------------------------------------------------------------
(* Pagination of the list routes *)

\* (page - 1) * pageSize in floating point: NaN if an operand is NaN
Offset(page, pageSize) ==
    IF page = NaN \/ pageSize = NaN THEN NaN ELSE (page - 1) * pageSize

\* pickPagination(req, defaultPage, defaultPageSize, maxPageSize), with the
\* query values page and pageSize of req and the defaults as texts; the list
\* routes of recipes, ingredients and inventory items compute the same inline
\* with the defaults 1 and 20 and the maximum 100
pickPagination(page, pageSize, defaultPage, defaultPageSize, maxPageSize) ==
    LET p == MathMax(1, ParseInt(QueryOr(page, defaultPage)))
        ps == MathMin(maxPageSize, MathMax(1, ParseInt(QueryOr(pageSize, defaultPageSize))))
    IN [page |-> p, pageSize |-> ps, offset |-> Offset(p, ps)]

\* the list routes with their default and their greatest pageSize
ListRoutes ==
    {[op |-> "GET /recipes", defaultPageSize |-> "20", maxPageSize |-> 100],
     [op |-> "GET /ingredients", defaultPageSize |-> "20", maxPageSize |-> 100],
     [op |-> "GET /inventory/items", defaultPageSize |-> "20", maxPageSize |-> 100],
     [op |-> "GET /shopping-lists", defaultPageSize |-> "20", maxPageSize |-> 100],
     [op |-> "GET /shopping-lists/:id/items", defaultPageSize |-> "50", maxPageSize |-> 200]}

\* LIMIT pageSize OFFSET offset over the rows in their order
Window(seq, pageSize, offset) ==
    SubSeq(seq, offset + 1, IF offset + pageSize <= Len(seq) THEN offset + pageSize ELSE Len(seq))

\* GET /shopping-lists/:id/items?page=&pageSize=  (a page or pageSize that is
\* NaN goes into the statement as the text NaN, which the store rejects)
ItemsPageResponse(u, listId, page, pageSize) ==
    LET op == "GET /shopping-lists/:id/items"
        all == ItemsListResponse(u, listId)
        p == pickPagination(page, pageSize, "1", "50", 200)
    IN
    IF all.status # 200
      THEN all
    ELSE IF p.page = NaN \/ p.pageSize = NaN
      THEN InternalError(op, "Failed to list shopping list items")
    ELSE Ok(op, 200,
            [items |-> Window(all.data.items, p.pageSize, p.offset),
             page |-> p.page, pageSize |-> p.pageSize, total |-> all.data.total])

ItemsPage(u, listId, page, pageSize) ==
    /\ resp' = For(ItemsPageResponse(u, listId, page, pageSize), u, listId)
    /\ UNCHANGED <<env, autoinc, tables, reg, pending>>

NextPaging ==
    \/ \E u \in Subjects : ShoppingListCreate(u, ListBody(<<" ", "w", "k">>, UNDEFINED))
    \/ \E u \in Subjects : \E id \in OwnLists(u) :
          ItemCreate(u, id, ItemBody(Absent, <<"r", "i">>, "1", "undefined", Absent))
    \/ \E u \in Subjects : \E id \in OwnLists(u) :
       \E page \in {"undefined", "0", "2", "abc"}, pageSize \in {"undefined", "1", "400", "abc"} :
          ItemsPage(u, id, page, pageSize)

SpecPaging == InitTwoUsers /\ [][NextPaging]_vars

\* C17: for every list route and every value of page and pageSize - absent,
\* numeric, zero, negative, too large, not a number - the page used is an
\* integer >= 1 (1 when absent), the pageSize used is an integer within
\* 1..100 (1..200 for the items of a shopping list; 20, or 50 for those items,
\* when absent), and offset = (page - 1) * pageSize is an integer >= 0; the
\* list of the items of a shopping list answers with that page and pageSize.
C17_PaginationWithinBounds ==
    \A route \in ListRoutes : \A page, pageSize \in QueryValues :
        LET p == pickPagination(page, pageSize, "1", route.defaultPageSize, route.maxPageSize) IN
        /\ p.page \in Nat /\ p.page >= 1
        /\ page \in {"undefined", ""} => p.page = 1
        /\ p.pageSize \in 1..route.maxPageSize
        /\ pageSize \in {"undefined", ""} => p.pageSize = ParseInt(route.defaultPageSize)
        /\ p.offset \in Nat
        /\ p.offset = (p.page - 1) * p.pageSize
        /\ route.op = "GET /shopping-lists/:id/items" =>
              \A s \in Subjects : \A l \in OwnLists(s) :
                 LET r == ItemsPageResponse(s, l, page, pageSize) IN
                 /\ r.status = 200
                 /\ r.data.page = p.page
                 /\ r.data.pageSize = p.pageSize
                 /\ Len(r.data.items) <= p.pageSize

\* C17 witness: a list of the items of an owned shopping list that has an
\* item, requested with a page or pageSize that is no number, was answered 500
C17_NonNumericPageFails ==
    /\ resp.op = "GET /shopping-lists/:id/items"
    /\ resp.status = 500
    /\ ItemsOf(resp.id) # {}


-----------------------------------------------------------------------------
(* The title of a recipe *)

NextTitles ==
    \/ \E u \in Subjects, t \in {<<" ", "a", " ">>, <<" ", "c", "d", " ">>} :
          RecipeCreate(u, t, FALSE)
    \/ \E u \in Subjects : \E id \in OwnRecipes(u) :
       \E t \in {NUMBER, <<" ", "a", " ">>, <<"A", "B", " ">>} :
          RecipePatch(u, id, t, "undefined")
    \/ \E u \in Subjects : \E id \in OwnRecipes(u) : \E p \in {"true", "false"} :
          RecipePatch(u, id, UNDEFINED, p)

SpecTitles == InitTwoUsers /\ [][NextTitles]_vars

\* s is t without its leading and trailing spaces
TrimmedOf(t, s) ==
    \E i \in 1..(Len(t) + 1) : \E j \in 0..Len(t) :
        /\ s = SubSeq(t, i, j)
        /\ \A k \in 1..Len(t) : (k < i \/ k > j) => t[k] = " "
        /\ s # <<>> => s[1] # " " /\ s[Len(s)] # " "

\* a title that is a string of at least 2 characters after trimming
ValidTitle(t) ==
    /\ t \notin {UNDEFINED, NULL, NUMBER}
    /\ \E s \in {SubSeq(t, i, j) : i \in 1..(Len(t) + 1), j \in 0..Len(t)} :
          TrimmedOf(t, s) /\ Len(s) >= 2

IsValidationError(r) == r.status = 400 /\ r.code = "VALIDATION_ERROR"

\* POST /recipes by u follows the title rule: 400 and no row for a title
\* that is not valid, else exactly one new row of u with the trimmed title
CreateFollowsTitleRule(u) ==
    \A t \in Titles, p \in BOOLEAN :
        LET o == RecipeCreateOutcome(u, t, p) IN
        IF ~ValidTitle(t)
          THEN IsValidationError(o.resp) /\ o.recipes = recipes
          ELSE /\ o.resp.status = 201
               /\ o.resp.data.id \notin DOMAIN recipes
               /\ DOMAIN o.recipes = DOMAIN recipes \cup {o.resp.data.id}
               /\ \A r \in DOMAIN recipes : o.recipes[r] = recipes[r]
               /\ o.recipes[o.resp.data.id].user_id = u
               /\ TrimmedOf(t, o.recipes[o.resp.data.id].title)

\* PATCH /recipes/:id by the owner with the title t of the body: 400 and no
\* change for a title that is not valid, else the row gets the trimmed title
PatchFollowsTitleRule(u, id, t, p) ==
    LET o == RecipePatchOutcome(u, id, t, p) IN
    IF ~ValidTitle(t)
      THEN IsValidationError(o.resp) /\ o.recipes = recipes
      ELSE /\ o.resp.status = 200
           /\ DOMAIN o.recipes = DOMAIN recipes
           /\ \A r \in DOMAIN recipes \ {id} : o.recipes[r] = recipes[r]
           /\ o.recipes[id].user_id = u
           /\ TrimmedOf(t, o.recipes[id].title)

\* C18 (as stated): POST /recipes is answered VALIDATION_ERROR and creates no
\* row when the title is missing, not a string or shorter than 2 characters
\* after trimming, and with a longer title creates exactly one recipe of the
\* caller with the trimmed title; PATCH /recipes/:id applies the same rule to
\* every body, a body without a title included.
C18_SameTitleRuleOnPatch ==
    \A u \in Subjects :
        /\ CreateFollowsTitleRule(u)
        /\ \A id \in OwnRecipes(u) : \A t \in Titles, p \in PublicFlags :
              PatchFollowsTitleRule(u, id, t, p)

\* C18 (amended): POST /recipes follows the title rule as above; PATCH
\* /recipes/:id applies the rule to the title of the body when the body has
\* one (null and non-strings included), and a body without a title that
\* names another field is answered 200 and leaves the title as it is.
C18_TitleRule ==
    \A u \in Subjects :
        /\ CreateFollowsTitleRule(u)
        /\ \A id \in OwnRecipes(u) : \A p \in PublicFlags :
              /\ \A t \in Titles \ {UNDEFINED} : PatchFollowsTitleRule(u, id, t, p)
              /\ LET o == RecipePatchOutcome(u, id, UNDEFINED, p) IN
                 IF p = "undefined"
                   THEN IsValidationError(o.resp) /\ o.recipes = recipes
                   ELSE /\ o.resp.status = 200
                        /\ DOMAIN o.recipes = DOMAIN recipes
                        /\ o.recipes[id].title = recipes[id].title

\* a recipe created from a padded title holds the trimmed title of a PATCH,
\* and a PATCH without a title has just been answered 200
C18_Witness ==
    /\ resp.op = "PATCH /recipes/:id"
    /\ resp.status = 200
    /\ resp.id \in DOMAIN recipes
    /\ recipes[resp.id].title = <<"A", "B">>
    /\ recipes[resp.id].is_public
    /\ \E r \in DOMAIN recipes : recipes[r].title = <<"c", "d">>


-----------------------------------------------------------------------------
(* Exceptions: statements that throw, and what answers the request *)

\* err.message of an exception of the driver that does not depend on the
\* statement (the connection to the store is lost)
DriverErrors == {"ECONNREFUSED"}

\* GET /auth/me: the answer when the SELECT returns
MeResponse(u) ==
    IF u \notin DOMAIN users
      THEN NotFound("GET /auth/me", "User not found")
      ELSE Ok("GET /auth/me", 200, [id |-> u, email |-> users[u].email])

\* GET /auth/me after authRequired, suspended at await pool.query
MeBegin(p, u) ==
    /\ pending[p].pc = "idle"
    /\ pending' = [pending EXCEPT ![p] = [pc |-> "me", sub |-> u]]
    /\ UNCHANGED <<env, autoinc, tables, reg, resp>>

\* the SELECT returns its rows
MeQuery(p) ==
    /\ pending[p].pc = "me"
    /\ resp' = For(MeResponse(pending[p].sub), pending[p].sub, 0)
    /\ pending' = [pending EXCEPT ![p] = Idle]
    /\ UNCHANGED <<env, autoinc, tables, reg>>

\* the SELECT throws e.  The handler has no try/catch, so the promise of the
\* async handler is rejected.  With a router that does not look at the
\* promise (Express 4) nothing answers the request: it stays open.
MeRejected(p, e) ==
    /\ pending[p].pc = "me"
    /\ pending' = [pending EXCEPT ![p].pc = "rejected"]
    /\ UNCHANGED <<env, autoinc, tables, reg, resp>>

\* the SELECT throws e, with a router that passes the rejection on (Express
\* 5): there is no error middleware, so the default handler answers 500 with
\* a page that is not the JSON error body
MeDefaultHandler(p, e) ==
    /\ pending[p].pc = "me"
    /\ resp' = For(Err("GET /auth/me", 500, "", ""), pending[p].sub, 0)
    /\ pending' = [pending EXCEPT ![p] = Idle]
    /\ UNCHANGED <<env, autoinc, tables, reg>>

\* GET /shopping-lists (without query parameters), suspended at the first
\* await pool.query
ShoppingListsListBegin(p, u) ==
    /\ pending[p].pc = "idle"
    /\ pending' = [pending EXCEPT ![p] = [pc |-> "lists", sub |-> u]]
    /\ UNCHANGED <<env, autoinc, tables, reg, resp>>

\* the COUNT and the SELECT return
ShoppingListsListQuery(p) ==
    /\ pending[p].pc = "lists"
    /\ resp' = For(ShoppingListsListResponse(pending[p].sub), pending[p].sub, 0)
    /\ pending' = [pending EXCEPT ![p] = Idle]
    /\ UNCHANGED <<env, autoinc, tables, reg>>

\* a statement throws e: the catch block answers with its own message
ShoppingListsListThrows(p, e) ==
    /\ pending[p].pc = "lists"
    /\ resp' = For(InternalError("GET /shopping-lists", "Failed to list shopping lists"),
                   pending[p].sub, 0)
    /\ pending' = [pending EXCEPT ![p] = Idle]
    /\ UNCHANGED <<env, autoinc, tables, reg>>

\* requests that are suspended at an await
Busy == {p \in Procs : pending[p].pc # "idle"}

\* the statement of the suspended request p settles, with rows or with an
\* exception
Settle(p) ==
    \/ AddIngredientFind(p)
    \/ AddIngredientCreate(p)
    \/ AddIngredientInsert(p)
    \/ MeQuery(p)
    \/ ShoppingListsListQuery(p)
    \/ \E e \in DriverErrors : MeRejected(p, e)
    \/ \E e \in DriverErrors : MeDefaultHandler(p, e)
    \/ \E e \in DriverErrors : ShoppingListsListThrows(p, e)

\* a request that inserts a row is taken only with room for its row and for
\* the rows of the requests that are suspended
NextFailures ==
    \/ \E u \in Subjects :
          /\ RowsInserted + Cardinality(Busy) < MaxRows
          /\ RecipeCreate(u, <<"a", "b">>, FALSE)
    \/ \E p \in Procs, u \in Subjects, id \in DOMAIN recipes :
          /\ RowsInserted + Cardinality(Busy) < MaxRows
          /\ AddIngredientBegin(p, u, id, AddBody(0, <<"m", "o">>, "1", "g"))
    \/ \E p \in Procs, u \in Subjects : MeBegin(p, u)
    \/ \E p \in Procs, u \in Subjects : ShoppingListsListBegin(p, u)
    \/ \E p \in Procs : AddIngredientFind(p)
    \/ \E p \in Procs : AddIngredientCreate(p)
    \/ \E p \in Procs : AddIngredientInsert(p)
    \/ \E p \in Procs : MeQuery(p)
    \/ \E p \in Procs : ShoppingListsListQuery(p)
    \/ \E p \in Procs, e \in DriverErrors : MeRejected(p, e)
    \/ \E p \in Procs, e \in DriverErrors : MeDefaultHandler(p, e)
    \/ \E p \in Procs, e \in DriverErrors : ShoppingListsListThrows(p, e)

\* the event loop resumes every request whose statement has settled
SpecFailures ==
    InitTwoUsers /\ [][NextFailures]_vars /\ \A p \in Procs : WF_vars(Settle(p))

\* the route of a suspended request
OpOf(r) ==
    CASE r.pc = "me" -> "GET /auth/me"
      [] r.pc = "lists" -> "GET /shopping-lists"
      [] OTHER -> "POST /recipes/:id/ingredients"

\* the path id of a suspended request
PathIdOf(r) == IF r.pc \in {"me", "lists"} THEN 0 ELSE r.recipeId

\* a step in which the statement of request p throws the exception e
Throws(p, e) ==
    \/ e \in DriverErrors /\ (MeRejected(p, e) \/ MeDefaultHandler(p, e)
                              \/ ShoppingListsListThrows(p, e))
    \/ /\ e = "ER_DUP_ENTRY"
       /\ pending[p].pc = "create"
       /\ IngredientsByName(CleanName(pending[p])) # {}
       /\ AddIngredientCreate(p)
    \/ /\ pending[p].pc = "insert"
       /\ e = RecipeIngredientInsertError(pending[p].recipeId, pending[p].ingredientId)
       /\ AddIngredientInsert(p)

ExceptionMessages == DriverErrors \cup {"ER_DUP_ENTRY", "ER_NO_REFERENCED_ROW_2"}

\* C19: (1) a step in which a statement of a request throws e answers that
\* request 500 INTERNAL_ERROR with the message e and ends the request, so
\* that the statement is not run again; (2) every request that is suspended
\* is eventually answered.
C19_ExceptionsAnsweredWithRawMessage ==
    /\ [][\A p \in Procs : \A e \in ExceptionMessages :
            Throws(p, e) =>
               /\ resp' = For(InternalError(OpOf(pending[p]), e),
                              pending[p].sub, PathIdOf(pending[p]))
               /\ pending'[p] = Idle]_vars
    /\ \A p \in Procs : (pending[p].pc # "idle") ~> (pending[p].pc = "idle")

\* a request of GET /auth/me is left without an answer after its SELECT
\* threw, and the last answer is the message of a catch block that is not
\* the message of the exception
C19_ExceptionNotReported ==
    /\ \E p \in Procs : pending[p].pc = "rejected"
    /\ resp.op = "GET /shopping-lists"
    /\ resp.status = 500
    /\ resp.message \notin ExceptionMessages


-----------------------------------------------------------------------------
(* Names without a row in the catalog *)

\* bodies that name an ingredient by free text, without ingredientId
NamedItemBodies ==
    {ItemBody(Absent, n, "1", "undefined", Absent) : n \in {<<" ", "r", "i">>, <<"m", "o">>}}

NamedInvBodies == {InvBody(0, <<"r", "i">>, "1", "g", "fridge")}

NextNames ==
    \/ \E u \in Subjects : RecipeCreate(u, <<"a", "b">>, FALSE)
    \/ \E u \in Subjects, id \in DOMAIN recipes :
          AddIngredientBegin("p1", u, id, AddBody(0, <<" ", "m", "o", " ">>, "1", "g"))
    \/ AddIngredientFind("p1")
    \/ AddIngredientCreate("p1")
    \/ AddIngredientInsert("p1")
    \/ \E u \in Subjects : ShoppingListCreate(u, ListBody(<<" ", "w", "k">>, UNDEFINED))
    \/ \E u \in Subjects : \E id \in OwnLists(u) : \E b \in NamedItemBodies :
          ItemCreate(u, id, b)
    \/ \E u \in Subjects, b \in NamedInvBodies : InventoryCreate(u, b)

SpecNames == InitTwoUsers /\ [][NextNames]_vars

\* the row that a step has inserted into a table
Inserted(old, new) == new[CHOOSE i \in DOMAIN new : i \notin DOMAIN old]

\* C20 (as stated): a step of POST /shopping-lists/:id/items that creates an
\* item from a free-text name without a matching row in the catalog leaves
\* a row of that name in ingredients.
C20_ItemByNameCreatesIngredient ==
    [][\A u \in Subjects : \A l \in OwnLists(u) : \A b \in NamedItemBodies :
          (/\ ItemCreate(u, l, b)
           /\ resp'.status = 201
           /\ IngredientsByName(Trim(b.customName)) = {})
          => (IngredientsByName(Trim(b.customName)))' # {}]_vars

\* C20 (amended): a step of POST /shopping-lists/:id/items or of POST
\* /inventory/items that creates a row from a free-text name leaves the
\* table ingredients as it is and stores the trimmed name in custom_name
\* with ingredient_id NULL; the step of POST /recipes/:id/ingredients that
\* finds no row of the name inserts exactly one row of that name.
C20_FreeTextStaysCustomName ==
    /\ [][\A u \in Subjects : \A l \in OwnLists(u) : \A b \in NamedItemBodies :
             (ItemCreate(u, l, b) /\ resp'.status = 201)
             => /\ ingredients' = ingredients
                /\ LET row == Inserted(shopping_list_items, shopping_list_items') IN
                   /\ row.ingredient_id = 0
                   /\ TrimmedOf(b.customName, row.custom_name)]_vars
    /\ [][\A u \in Subjects : \A b \in NamedInvBodies :
             (InventoryCreate(u, b) /\ resp'.status = 201)
             => /\ ingredients' = ingredients
                /\ LET row == Inserted(inventory_items, inventory_items') IN
                   /\ row.ingredient_id = 0
                   /\ TrimmedOf(b.customName, row.custom_name)]_vars
    /\ [][(AddIngredientCreate("p1") /\ pending'["p1"].pc = "insert")
             => /\ IngredientsByName(CleanName(pending["p1"])) = {}
                /\ Cardinality(DOMAIN ingredients') = Cardinality(DOMAIN ingredients) + 1
                /\ TrimmedOf(pending["p1"].body.ingredientName,
                             Inserted(ingredients, ingredients').name)]_vars

\* an item has just been created from the name "ri", which has no row in the
\* catalog, while the name "mo" of a request that adds a recipe ingredient
\* has one
C20_Witness ==
    /\ resp.op = "POST /shopping-lists/:id/items"
    /\ resp.status = 201
    /\ resp.data.id \in DOMAIN shopping_list_items
    /\ shopping_list_items[resp.data.id].custom_name = <<"r", "i">>
    /\ shopping_list_items[resp.data.id].ingredient_id = 0
    /\ IngredientsByName(<<"r", "i">>) = {}
    /\ IngredientsByName(<<"m", "o">>) # {}


-----------------------------------------------------------------------------
(* References between the tables *)

\* recipes, their ingredients (by id and by name), shopping lists and items
\* that come from a recipe of any user, with the deletes of recipes and lists
NextIntegrity ==
    \/ \E u \in Subjects : RecipeCreate(u, <<"a", "b">>, FALSE)
    \/ \E u \in Subjects : \E id \in OwnRecipes(u) : RecipeDelete(u, id)
    \/ \E u \in Subjects : \E id \in OwnRecipes(u) : \E i \in {0} \cup DOMAIN ingredients :
          AddIngredientBegin("p1", u, id, AddBody(i, <<"m", "o">>, "1", "g"))
    \/ AddIngredientFind("p1")
    \/ AddIngredientCreate("p1")
    \/ AddIngredientInsert("p1")
    \/ \E u \in Subjects : ShoppingListCreate(u, ListBody(<<" ", "w", "k">>, UNDEFINED))
    \/ \E u \in Subjects : \E id \in OwnLists(u) : ShoppingListDelete(u, id)
    \/ \E u \in Subjects : \E id \in OwnLists(u) : \E r \in DOMAIN recipes :
          ItemCreate(u, id, ItemBody(Absent, <<"r", "i">>, "1", "undefined", r))

SpecIntegrity == InitTwoUsers /\ [][NextIntegrity]_vars

\* every reference of a row to a recipe or a shopping list names a row
ReferencesExist ==
    /\ \A ri \in DOMAIN recipe_ingredients :
          recipe_ingredients[ri].recipe_id \in DOMAIN recipes
    /\ \A it \in DOMAIN shopping_list_items :
          /\ shopping_list_items[it].shopping_list_id \in DOMAIN shopping_lists
          /\ shopping_list_items[it].from_recipe_id \in {0} \cup DOMAIN recipes

\* C21: (1) in every state every recipe_ingredient row refers to an existing
\* recipe and every shopping-list item to an existing shopping list (and to
\* an existing recipe or none); (2) a DELETE of a recipe that is answered 204
\* removes the recipe with all its recipe ingredients and keeps every
\* shopping-list item, with from_recipe_id NULL where it named the recipe and
\* unchanged otherwise; (3) a DELETE of a shopping list that is answered 204
\* removes all its items and no other item.
C21_DeletesKeepReferences ==
    /\ []ReferencesExist
    /\ [][\A u \in Subjects : \A id \in DOMAIN recipes :
             (RecipeDelete(u, id) /\ resp'.status = 204)
             => /\ id \notin DOMAIN recipes'
                /\ DOMAIN recipe_ingredients' =
                      {ri \in DOMAIN recipe_ingredients :
                         recipe_ingredients[ri].recipe_id # id}
                /\ DOMAIN shopping_list_items' = DOMAIN shopping_list_items
                /\ \A it \in DOMAIN shopping_list_items :
                      shopping_list_items'[it] =
                         IF shopping_list_items[it].from_recipe_id = id
                           THEN [shopping_list_items[it] EXCEPT !.from_recipe_id = 0]
                           ELSE shopping_list_items[it]]_vars
    /\ [][\A u \in Subjects : \A id \in DOMAIN shopping_lists :
             (ShoppingListDelete(u, id) /\ resp'.status = 204)
             => /\ id \notin DOMAIN shopping_lists'
                /\ DOMAIN shopping_list_items' =
                      {it \in DOMAIN shopping_list_items :
                         shopping_list_items[it].shopping_list_id # id}
                /\ \A it \in DOMAIN shopping_list_items' :
                      shopping_list_items'[it] = shopping_list_items[it]]_vars

\* a recipe has just been deleted and the item that came from it is kept
\* without its recipe (every item is created with a recipe here)
C21_Witness ==
    /\ resp.op = "DELETE /recipes/:id"
    /\ resp.status = 204
    /\ resp.id \notin DOMAIN recipes
    /\ \E it \in DOMAIN shopping_list_items : shopping_list_items[it].from_recipe_id = 0

\* the rows of subject a: its recipes with their recipe ingredients, its
\* inventory items, its shopping lists with their items
OwnedBy(a) ==
    [recipes |-> [id \in OwnRecipes(a) |-> recipes[id]],
     recipe_ingredients |->
        [ri \in {x \in DOMAIN recipe_ingredients :
                   recipe_ingredients[x].recipe_id \in OwnRecipes(a)}
            |-> recipe_ingredients[ri]],
     inventory_items |-> [id \in OwnItems(a) |-> inventory_items[id]],
     shopping_lists |-> [id \in OwnLists(a) |-> shopping_lists[id]],
     shopping_list_items |->
        [it \in {x \in DOMAIN shopping_list_items :
                   shopping_list_items[x].shopping_list_id \in OwnLists(a)}
            |-> shopping_list_items[it]]]

\* a step of a request of subject u
StepBy(u) ==
    \/ RecipeCreate(u, <<"a", "b">>, FALSE)
    \/ \E id \in DOMAIN recipes : RecipeDelete(u, id)
    \/ \E id \in DOMAIN recipes : \E i \in {0} \cup DOMAIN ingredients :
          AddIngredientBegin("p1", u, id, AddBody(i, <<"m", "o">>, "1", "g"))
    \/ /\ pending["p1"].pc # "idle"
       /\ pending["p1"].sub = u
       /\ AddIngredientFind("p1") \/ AddIngredientCreate("p1") \/ AddIngredientInsert("p1")
    \/ ShoppingListCreate(u, ListBody(<<" ", "w", "k">>, UNDEFINED))
    \/ \E id \in DOMAIN shopping_lists : ShoppingListDelete(u, id)
    \/ \E id \in DOMAIN shopping_lists : \E r \in DOMAIN recipes :
          ItemCreate(u, id, ItemBody(Absent, <<"r", "i">>, "1", "undefined", r))

\* C27 as stated: a step of a request of one subject leaves every row owned by
\* another subject as it was (recipes, recipe ingredients, inventory items,
\* shopping lists and shopping-list items; the ingredient catalog may change).
C27_OtherSubjectsRowsUnchanged ==
    [][\A u \in Subjects : \A a \in Subjects \ {u} :
          StepBy(u) => (OwnedBy(a))' = OwnedBy(a)]_vars

\* the owner of a recipe has just deleted it, and an item of another subject's
\* shopping list, created from a recipe, has lost its from_recipe_id
C27_ForeignItemChanged ==
    /\ resp.op = "DELETE /recipes/:id"
    /\ resp.status = 204
    /\ \E it \in DOMAIN shopping_list_items :
          /\ shopping_list_items[it].from_recipe_id = 0
          /\ shopping_lists[shopping_list_items[it].shopping_list_id].user_id # resp.sub

\* status and code of a response
StatusAndCode(r) == <<r.status, r.code>>

\* ids of recipes that are not in the table
NoRecipeIds == (1..(MaxRows + 1)) \ DOMAIN recipes

\* C28 as stated: for a caller's own list, creating or patching an item with
\* the id of an existing recipe of another subject is answered with the same
\* status and code as with an id that names no recipe, and no item refers to
\* a recipe of a subject other than the owner of its list.
C28_ForeignRecipeNotRevealed ==
    /\ \A u \in Subjects : \A l \in OwnLists(u) :
       \A r \in DOMAIN recipes \ OwnRecipes(u) : \A n \in NoRecipeIds :
          /\ StatusAndCode(ItemCreateOutcome(u, l,
                  ItemBody(Absent, <<"r", "i">>, "1", "undefined", r)).resp)
             = StatusAndCode(ItemCreateOutcome(u, l,
                  ItemBody(Absent, <<"r", "i">>, "1", "undefined", n)).resp)
          /\ \A it \in ItemsOf(l) :
                StatusAndCode(ItemPatchOutcome(u, l, it,
                    ItemBody(Absent, UNDEFINED, "undefined", "undefined", r)).resp)
                = StatusAndCode(ItemPatchOutcome(u, l, it,
                    ItemBody(Absent, UNDEFINED, "undefined", "undefined", n)).resp)
    /\ \A it \in DOMAIN shopping_list_items :
          shopping_list_items[it].from_recipe_id \in
             {0} \cup OwnRecipes(shopping_lists[shopping_list_items[it].shopping_list_id].user_id)

\* an item has just been created from a recipe of another subject; the same
\* request with an id of no recipe is answered 500
C28_ItemNamesForeignRecipe ==
    /\ resp.op = "POST /shopping-lists/:id/items"
    /\ resp.status = 201
    /\ resp.data.id \in DOMAIN shopping_list_items
    /\ LET row == shopping_list_items[resp.data.id] IN
          /\ row.from_recipe_id \in DOMAIN recipes
          /\ recipes[row.from_recipe_id].user_id # resp.sub
          /\ shopping_lists[row.shopping_list_id].user_id = resp.sub
          /\ \A n \in NoRecipeIds :
                ItemCreateOutcome(resp.sub, row.shopping_list_id,
                    ItemBody(Absent, <<"r", "i">>, "1", "undefined", n)).resp.status = 500


-----------------------------------------------------------------------------
(* One row per recipe and ingredient *)

\* request p1 adds by name and request p2 by id, to recipes of their subject
NextUnique ==
    \/ \E u \in Subjects : RecipeCreate(u, <<"a", "b">>, FALSE)
    \/ \E u \in Subjects : \E id \in OwnRecipes(u) :
          AddIngredientBegin("p1", u, id, AddBody(0, <<"m", "o">>, "1", "g"))
    \/ \E u \in Subjects : \E id \in OwnRecipes(u) : \E i \in DOMAIN ingredients :
          AddIngredientBegin("p2", u, id, AddBody(i, UNDEFINED, "1", "g"))
    \/ \E p \in Procs : AddIngredientFind(p)
    \/ \E p \in Procs : AddIngredientCreate(p)
    \/ \E p \in Procs : AddIngredientInsert(p)
    \/ \E u \in Subjects : \E id \in OwnRecipes(u) : \E ri \in IngredientsOf(id) :
          RecipeIngredientDelete(u, id, ri)

SpecUnique == InitTwoUsers /\ [][NextUnique]_vars

\* the rows of recipe_ingredients of a recipe and an ingredient
PairRows(recipeId, ingredientId) ==
    {ri \in DOMAIN recipe_ingredients :
        /\ recipe_ingredients[ri].recipe_id = recipeId
        /\ recipe_ingredients[ri].ingredient_id = ingredientId}

\* C22: (1) in every state there is at most one recipe_ingredient row per
\* recipe and ingredient; (2) the INSERT of a request (by id or by name) for
\* an ingredient that the recipe already contains is answered 500
\* INTERNAL_ERROR (not 409 CONFLICT) and leaves recipe_ingredients and the
\* catalog as they are; (3) a name that is in the catalog is resolved to its
\* row without a change of the catalog.
C22_OneRowPerRecipeAndIngredient ==
    /\ [](\A r \in DOMAIN recipes : \A i \in DOMAIN ingredients :
             Cardinality(PairRows(r, i)) <= 1)
    /\ [][\A p \in Procs :
             (/\ AddIngredientInsert(p)
              /\ PairRows(pending[p].recipeId, pending[p].ingredientId) # {})
             => /\ resp'.op = "POST /recipes/:id/ingredients"
                /\ resp'.status = 500
                /\ resp'.code = "INTERNAL_ERROR"
                /\ resp'.sub = pending[p].sub
                /\ recipe_ingredients' = recipe_ingredients
                /\ ingredients' = ingredients
                /\ autoinc' = autoinc]_vars
    /\ [][\A p \in Procs :
             (/\ AddIngredientFind(p)
              /\ \E i \in DOMAIN ingredients :
                    ingredients[i].name = Trim(pending[p].body.ingredientName))
             => /\ ingredients' = ingredients
                /\ pending'[p].pc = "insert"
                /\ pending'[p].ingredientId \in DOMAIN ingredients
                /\ ingredients[pending'[p].ingredientId].name =
                      Trim(pending[p].body.ingredientName)]_vars

\* the recipe of the last request holds the ingredient once, and the request
\* to add it again has been answered 500
C22_Witness ==
    /\ resp.op = "POST /recipes/:id/ingredients"
    /\ resp.status = 500
    /\ resp.message = "ER_DUP_ENTRY"
    /\ \E i \in DOMAIN ingredients : Cardinality(PairRows(resp.id, i)) = 1


-----------------------------------------------------------------------------
(* A request that ends between its two INSERTs *)

\* the server process ends: the suspended requests are lost without an
\* answer.  Every statement of pool.query is committed on its own, so the
\* rows written so far stay.
Crash ==
    /\ \E p \in Procs : pending[p].pc # "idle"
    /\ pending' = [p \in Procs |-> Idle]
    /\ reg' = [p \in Procs |-> Idle]
    /\ UNCHANGED <<env, autoinc, tables, resp>>

NextOrphans ==
    \/ \E u \in Subjects : RecipeCreate(u, <<"a", "b">>, FALSE)
    \/ \E u \in Subjects : \E id \in OwnRecipes(u) : RecipeDelete(u, id)
    \/ \E u \in Subjects : \E id \in OwnRecipes(u) :
          AddIngredientBegin("p1", u, id, AddBody(0, <<"m", "o">>, "1", "g"))
    \/ AddIngredientFind("p1")
    \/ AddIngredientCreate("p1")
    \/ AddIngredientInsert("p1")
    \/ Crash

SpecOrphans == InitTwoUsers /\ [][NextOrphans]_vars

\* the recipe_ingredient rows that refer to the ingredient i
ReferencesTo(i) ==
    {ri \in DOMAIN recipe_ingredients : recipe_ingredients[ri].ingredient_id = i}

\* C23: (1) the step that creates the catalog ingredient of a request by a
\* new name inserts no recipe_ingredient, and the request stays suspended
\* before its second INSERT; (2) a step that ends such a request without the
\* second INSERT (the process ends, or the INSERT is refused because the
\* recipe was deleted after the ownership check) leaves the new ingredient
\* in the catalog with no row that refers to it; (3) in every state every
\* recipe_ingredient refers to an existing recipe and an existing ingredient.
C23_FailureLeavesOrphanIngredient ==
    /\ [][(AddIngredientCreate("p1") /\ pending'["p1"].pc = "insert")
             => /\ recipe_ingredients' = recipe_ingredients
                /\ pending'["p1"].created \in DOMAIN ingredients' \ DOMAIN ingredients
                /\ ReferencesTo(pending'["p1"].created) = {}]_vars
    /\ [][(/\ pending["p1"].pc = "insert"
           /\ pending["p1"].created # 0
           /\ pending'["p1"].pc = "idle"
           /\ (Crash \/ resp'.status = 500))
             => /\ ingredients' = ingredients
                /\ pending["p1"].created \in DOMAIN ingredients'
                /\ recipe_ingredients' = recipe_ingredients
                /\ (ReferencesTo(pending["p1"].created))' = {}]_vars
    /\ [](\A ri \in DOMAIN recipe_ingredients :
             /\ recipe_ingredients[ri].recipe_id \in DOMAIN recipes
             /\ recipe_ingredients[ri].ingredient_id \in DOMAIN ingredients)

\* the recipe was deleted while the request was suspended: its INSERT has
\* been refused, and the ingredient it created is in the catalog without a
\* row that refers to it
C23_Witness ==
    /\ resp.op = "POST /recipes/:id/ingredients"
    /\ resp.status = 500
    /\ resp.message = "ER_NO_REFERENCED_ROW_2"
    /\ resp.id \notin DOMAIN recipes
    /\ \E i \in DOMAIN ingredients : ReferencesTo(i) = {}
    /\ pending["p1"].pc = "idle"


-----------------------------------------------------------------------------
(* Names of the catalog *)

\* names of a body of POST /ingredients
IngredientNames ==
    {<<"M", "o">>, <<" ", "M", "o", " ">>, <<"m", "o">>, <<"m", "o", " ">>, <<"r", "i">>}

\* requests that create catalog rows: p1 explicitly, p2 by the name of a
\* recipe ingredient
NextIngredientNames ==
    \/ \E u \in Subjects : RecipeCreate(u, <<"a", "b">>, FALSE)
    \/ \E u \in Subjects, n \in IngredientNames : IngredientCreateCheck("p1", u, n, "kg")
    \/ IngredientCreateInsert("p1")
    \/ \E u \in Subjects : \E id \in OwnRecipes(u) :
       \E n \in {<<"m", "o">>, <<"r", "i", " ">>} :
          AddIngredientBegin("p2", u, id, AddBody(0, n, "1", "g"))
    \/ AddIngredientFind("p2")
    \/ AddIngredientCreate("p2")
    \/ AddIngredientInsert("p2")

SpecIngredientNames == InitTwoUsers /\ [][NextIngredientNames]_vars

\* C24: (1) the step of POST /ingredients that looks up a name which, after
\* trimming, is the name of a row of the catalog answers 409 CONFLICT and
\* leaves the catalog as it is, with no request left to insert; (2) in every
\* state no two rows of the catalog have the same name.
C24_ExistingNameConflicts ==
    /\ [][\A p \in Procs : \A u \in Subjects : \A n \in IngredientNames :
             (/\ IngredientCreateCheck(p, u, n, "kg")
              /\ \E i \in DOMAIN ingredients : ingredients[i].name = Trim(n))
             => /\ resp'.op = "POST /ingredients"
                /\ resp'.status = 409
                /\ resp'.code = "CONFLICT"
                /\ ingredients' = ingredients
                /\ autoinc' = autoinc
                /\ pending' = pending]_vars
    /\ [](\A i, j \in DOMAIN ingredients :
             ingredients[i].name = ingredients[j].name => i = j)

\* POST /ingredients for the name "Mo", which has a row, was answered 409,
\* and the catalog has a second row
C24_Witness ==
    /\ resp.op = "POST /ingredients"
    /\ resp.status = 409
    /\ \E i \in DOMAIN ingredients : ingredients[i].name = <<"M", "o">>
    /\ \E i \in DOMAIN ingredients : ingredients[i].name = <<"r", "i">>


-----------------------------------------------------------------------------
(* What names an inventory item *)

\* inventory items by ingredient id and by custom name, and patches of the
\* custom name
NextPantry ==
    \/ \E u \in Subjects : IngredientCreateCheck("p1", u, <<"m", "o">>, "kg")
    \/ IngredientCreateInsert("p1")
    \/ \E u \in Subjects : \E i \in {0} \cup DOMAIN ingredients :
       \E n \in {UNDEFINED, <<"r">>, <<"r", "i">>} :
          InventoryCreate(u, InvBody(i, n, "1", "g", "fridge"))
    \/ \E u \in Subjects : \E id \in OwnItems(u) :
       \E n \in {NULL, <<"r">>, <<" ", "r", "o", " ">>} :
          InventoryPatch(u, id, InvPatchBody("undefined", "undefined", n))

SpecPantry == InitTwoUsers /\ [][NextPantry]_vars

\* the row has an ingredient id, or a custom name of at least 2 characters
Identified(row) ==
    \/ row.ingredient_id # 0
    \/ row.custom_name # NULL /\ Len(row.custom_name) >= 2

\* C25: in every state every inventory item has a non-null ingredient id or
\* a non-null custom name of at least 2 characters.
C25_InventoryItemIsIdentified ==
    \A i \in DOMAIN inventory_items : Identified(inventory_items[i])

\* PATCH /inventory/items/:id with customName null has been answered 200 for
\* an item without ingredient id: the item has neither
C25_ItemWithoutIdentity ==
    /\ resp.op = "PATCH /inventory/items/:id"
    /\ resp.status = 200
    /\ resp.id \in DOMAIN inventory_items
    /\ inventory_items[resp.id].ingredient_id = 0
    /\ inventory_items[resp.id].custom_name = NULL


-----------------------------------------------------------------------------
(* Items addressed through a list *)

\* bodies of the item PATCH requests that are sent: a flag alone, a switch to
\* an ingredient or to a name, null and blank names, an unknown ingredient id
ItemPatchBodies ==
    {ItemBody(Absent, UNDEFINED, "undefined", "true", Absent)}
    \cup {ItemBody(i, UNDEFINED, "undefined", "undefined", Absent) :
            i \in {MaxRows + 1} \cup DOMAIN ingredients}
    \cup {ItemBody(Absent, n, "undefined", "undefined", Absent) :
            n \in {NULL, <<" ">>, <<" ", "r", "o">>}}

\* lists, a catalog row, items by ingredient id or by name, and PATCH and
\* DELETE of any item through any list of the caller
NextItems ==
    \/ \E u \in Subjects : ShoppingListCreate(u, ListBody(<<" ", "w", "k">>, UNDEFINED))
    \/ \E u \in Subjects : IngredientCreateCheck("p1", u, <<"m", "o">>, "kg")
    \/ IngredientCreateInsert("p1")
    \/ \E u \in Subjects : \E id \in OwnLists(u) : \E i \in {Absent} \cup DOMAIN ingredients :
       \E n \in {UNDEFINED, <<"r", "i">>} :
          ItemCreate(u, id, ItemBody(i, n, "1", "undefined", Absent))
    \/ \E u \in Subjects : \E id \in OwnLists(u) : \E it \in DOMAIN shopping_list_items :
       \E b \in ItemPatchBodies : ItemPatch(u, id, it, b)
    \/ \E u \in Subjects : \E id \in OwnLists(u) : \E it \in DOMAIN shopping_list_items :
          ItemDelete(u, id, it)

SpecItems == InitTwoUsers /\ [][NextItems]_vars

\* the body of an item PATCH is refused before the UPDATE is sent
PatchBodyRefused(b) ==
    LET named == b.ingredientId # Absent \/ b.customName # UNDEFINED
        ingredientId == ParseId(b.ingredientId)
    IN
    \/ /\ named
       /\ ingredientId = 0
       /\ (b.customName = UNDEFINED \/ Trim(StringOf(b.customName)) = <<>>)
    \/ named /\ ingredientId # 0 /\ ingredientId \notin DOMAIN ingredients
    \/ /\ ~named /\ b.quantity = "undefined" /\ b.isChecked = "undefined"
       /\ b.fromRecipeId = Absent

\* the PATCH or DELETE outcome o for item it leaves every other item as it is
OnlyItem(o, it) ==
    \A x \in DOMAIN shopping_list_items \ {it} :
        /\ x \in DOMAIN o.shopping_list_items
        /\ o.shopping_list_items[x] = shopping_list_items[x]

\* C29 as stated: PATCH and DELETE of an item change or remove it only when
\* the list of the path is owned by the caller and the item belongs to that
\* list; an item of any other list is answered NOT_FOUND and left unchanged.
C29_ItemOfOtherListIsNotFound ==
    \A u \in Subjects : \A l \in DOMAIN shopping_lists :
    \A it \in DOMAIN shopping_list_items : \A b \in ItemBodies \cup ItemPatchBodies :
        LET p == ItemPatchOutcome(u, l, it, b)
            d == ItemDeleteOutcome(u, l, it)
        IN
        /\ OnlyItem(p, it) /\ OnlyItem(d, it)
        /\ ~(l \in OwnLists(u) /\ it \in ItemsOf(l))
              => /\ p.shopping_list_items = shopping_list_items
                 /\ d.shopping_list_items = shopping_list_items
                 /\ IsNotFound(p.resp)
                 /\ IsNotFound(d.resp)

\* C29 amended: PATCH and DELETE of an item change or remove that item alone,
\* and only when the list of the path is owned by the caller and the item
\* belongs to that list.  An item of any other list is left unchanged; DELETE
\* answers NOT_FOUND, and PATCH answers NOT_FOUND unless the list is the
\* caller's and the body is refused by validation, which is answered 400
\* VALIDATION_ERROR before the item is looked at.
C29_ItemOfOtherListIsUnchanged ==
    \A u \in Subjects : \A l \in DOMAIN shopping_lists :
    \A it \in DOMAIN shopping_list_items : \A b \in ItemBodies \cup ItemPatchBodies :
        LET p == ItemPatchOutcome(u, l, it, b)
            d == ItemDeleteOutcome(u, l, it)
        IN
        /\ OnlyItem(p, it) /\ OnlyItem(d, it)
        /\ ~(l \in OwnLists(u) /\ it \in ItemsOf(l))
              => /\ p.shopping_list_items = shopping_list_items
                 /\ d.shopping_list_items = shopping_list_items
                 /\ IsNotFound(d.resp)
                 /\ IF l \in OwnLists(u) /\ PatchBodyRefused(b)
                      THEN p.resp.status = 400 /\ p.resp.code = "VALIDATION_ERROR"
                      ELSE IsNotFound(p.resp)

\* C29 witness: a PATCH through a list of the caller that has no item was
\* answered "Item not found"; the item it named is in another list
C29_Witness ==
    /\ resp.op = "PATCH /shopping-lists/:id/items/:itemId"
    /\ IsNotFound(resp)
    /\ resp.id \in OwnLists(resp.sub)
    /\ ItemsOf(resp.id) = {}
    /\ shopping_list_items # EmptyTable


-----------------------------------------------------------------------------
(* What names a shopping-list item *)

\* the body carries a positive ingredient id that has a catalog row
IngredientSupplied(b) == ParseId(b.ingredientId) \in DOMAIN ingredients

\* the body carries a custom name that is a non-empty text after trimming
NameSupplied(b) ==
    /\ b.customName \notin {UNDEFINED, NULL}
    /\ Trim(b.customName) # <<>>

\* the body of a PATCH carries the key ingredientId or the key customName
NamesIdentity(b) == b.ingredientId # Absent \/ b.customName # UNDEFINED

\* the row has an ingredient id and no custom name, or a non-empty custom
\* name and no ingredient id
ExactlyOneIdentity(row) ==
    \/ row.ingredient_id # 0 /\ row.custom_name = NULL
    \/ row.ingredient_id = 0 /\ row.custom_name \notin {NULL, <<>>}

IsRefused(o) ==
    /\ o.resp.status = 400
    /\ o.resp.code = "VALIDATION_ERROR"
    /\ o.shopping_list_items = shopping_list_items

\* C30 as stated: every shopping-list item has exactly one of ingredient_id
\* and custom_name non-null.  A create or patch that succeeds with an
\* ingredient id stores it and clears the custom name; one that succeeds with
\* a custom name and no ingredient id stores the trimmed name and clears the
\* ingredient id; a create, or a patch that carries ingredientId or
\* customName, with neither an ingredient id of the catalog nor a non-empty
\* custom name is refused and changes nothing.
C30_ExactlyOneOfIngredientAndName ==
    /\ \A it \in DOMAIN shopping_list_items : ExactlyOneIdentity(shopping_list_items[it])
    /\ \A u \in Subjects : \A l \in OwnLists(u) : \A b \in ItemBodies \cup ItemPatchBodies :
          LET c == ItemCreateOutcome(u, l, b)
              new == c.shopping_list_items[autoinc.shopping_list_items]
          IN
          /\ ~IngredientSupplied(b) /\ ~NameSupplied(b) => IsRefused(c)
          /\ c.resp.status = 201 /\ IngredientSupplied(b)
                => new.ingredient_id = b.ingredientId /\ new.custom_name = NULL
          /\ c.resp.status = 201 /\ ~IngredientSupplied(b)
                => new.ingredient_id = 0 /\ new.custom_name = Trim(b.customName)
          /\ \A it \in ItemsOf(l) :
                LET p == ItemPatchOutcome(u, l, it, b)
                    row == p.shopping_list_items[it]
                IN
                /\ NamesIdentity(b) /\ ~IngredientSupplied(b) /\ ~NameSupplied(b)
                      => IsRefused(p)
                /\ p.resp.status = 200 /\ IngredientSupplied(b)
                      => row.ingredient_id = b.ingredientId /\ row.custom_name = NULL
                /\ p.resp.status = 200 /\ NamesIdentity(b) /\ ~IngredientSupplied(b)
                      => row.ingredient_id = 0 /\ row.custom_name = Trim(b.customName)

\* PATCH with customName null has been answered 200: the item has lost its
\* ingredient id and its custom name is the text "null"
C30_ItemNamedNull ==
    /\ resp.op = "PATCH /shopping-lists/:id/items/:itemId"
    /\ resp.status = 200
    /\ \E it \in ItemsOf(resp.id) :
          /\ shopping_list_items[it].ingredient_id = 0
          /\ shopping_list_items[it].custom_name = <<"n", "u", "l", "l">>

====
